---- MODULE Spec2Model ----
(***************************************************************************)
(* A model of the proxmox-utilities workflows: TemplateCreator             *)
(* (template.py), VMCreator (vm.py) and the helpers of utils.py they call. *)
(*                                                                         *)
(* Text is modelled as a sequence of string pieces, a name as a sequence   *)
(* of one-character strings, an argv as a sequence of such texts.  An      *)
(* optional value is <<>> (None) or <<v>>.  A raised exception is <<e>>,   *)
(* no exception is <<>>.                                                   *)
(***************************************************************************)
EXTENDS Integers, Sequences, FiniteSets, TLC

VARIABLES
    config,     \* the ProxmoxConfig the creators were built with
    file,       \* the image file of each release under /tmp
    hv,         \* ids of the VMs that exist on the hypervisor
    pc,         \* position of the running call
    call,       \* the running call: its operation and resolved arguments
    cmds,       \* the external commands the running call has issued
    downloads,  \* what the running call did with download_file
    result,     \* how the running call ended
    calls       \* the number of calls begun so far

vars == <<config, file, hv, pc, call, cmds, downloads, result, calls>>

----------------------------------------------------------------------------
(* Bounds of the model *)

\* The number of workflow calls one behaviour makes, one after another.
MaxCalls == 2

----------------------------------------------------------------------------
(* Values *)

IntId(n) == [ty |-> "int", n |-> n]
StrId(n) == [ty |-> "str", n |-> n]

\* str(x) of an id: the decimal digits, for an int and for the str alike.
PyStr(id) == <<ToString(id.n)>>

Releases == {"jammy", "noble"}

ReleaseValue(release) ==
    IF release = "jammy" THEN <<"j", "a", "m", "m", "y">>
    ELSE IF release = "focal" THEN <<"f", "o", "c", "a", "l">>
    ELSE <<"n", "o", "b", "l", "e">>

SshKeyFile == <<"/root/.ssh/id_rsa.pub">>

DefaultDataStore == <<"local-lvm">>
DefaultVmBridge == <<"vmbr0">>
DefaultTemplateMemoryMb == 2048
DefaultTemplateDiskIncreaseGb == 30
DefaultDownloadTimeoutSeconds == 300
DefaultImageBaseUrl == <<"https://cloud-images.ubuntu.com">>

\* The values of max_retries the model configures: the least, the default
\* and the greatest the field admits.
MaxRetriesValues == {1, 3, 10}
DefaultMaxRetries == 3

ProxmoxConfig(ssh_key_path, max_retries) ==
    [data_store |-> DefaultDataStore,
     vm_bridge |-> DefaultVmBridge,
     ssh_key_path |-> ssh_key_path,
     template_memory_mb |-> DefaultTemplateMemoryMb,
     template_disk_increase_gb |-> DefaultTemplateDiskIncreaseGb,
     ubuntu_image_base_url |-> DefaultImageBaseUrl,
     download_timeout_seconds |-> DefaultDownloadTimeoutSeconds,
     max_retries |-> max_retries]

\* The configurations of the workflow model: with and without an SSH key.
Configs == {ProxmoxConfig(k, DefaultMaxRetries) : k \in {<<>>, <<SshKeyFile>>}}

\* The configurations of the download model: every max_retries value.
RetryConfigs == {ProxmoxConfig(<<>>, m) : m \in MaxRetriesValues}

----------------------------------------------------------------------------
(* exceptions.py *)

Error(kind, msg, cause) == [kind |-> kind, msg |-> msg, cause |-> cause]

ProxmoxCommandError(command, returncode, stderr, cause) ==
    [kind |-> "ProxmoxCommandError",
     command |-> command,
     returncode |-> returncode,
     stderr |-> stderr,
     msg |-> <<"Command '">> \o command \o <<"' failed with exit code ",
               ToString(returncode), ": ">> \o stderr,
     cause |-> cause]

----------------------------------------------------------------------------
(* utils.py *)

DefaultMinId == 100
DefaultMaxId == 999999999
DefaultCommandTimeout == 300

\* validate_vm_id raising the library's ValidationError.
validate_vm_id_library_error(vm_id, min_id, max_id) ==
    IF vm_id.ty # "int"
    THEN <<Error("ValidationError",
                 <<"VM ID must be an integer, got ", vm_id.ty>>, <<>>)>>
    ELSE IF vm_id.n < min_id \/ vm_id.n > max_id
    THEN <<Error("ValidationError",
                 <<"VM ID must be between ", ToString(min_id), " and ",
                   ToString(max_id), ", got ", ToString(vm_id.n)>>, <<>>)>>
    ELSE <<>>

\* validate_vm_id with both limits exclusive.
validate_vm_id_exclusive(vm_id, min_id, max_id) ==
    IF vm_id.ty # "int"
    THEN <<Error("ValueError",
                 <<"VM ID must be an integer, got ", vm_id.ty>>, <<>>)>>
    ELSE IF vm_id.n <= min_id \/ vm_id.n >= max_id
    THEN <<Error("ValueError",
                 <<"VM ID must be between ", ToString(min_id), " and ",
                   ToString(max_id), ", got ", ToString(vm_id.n)>>, <<>>)>>
    ELSE <<>>

\* validate_vm_id with the checks left out.
validate_vm_id_off(vm_id, min_id, max_id) == <<>>

validate_vm_id(vm_id, min_id, max_id) ==
    IF vm_id.ty # "int"
    THEN <<Error("ValueError",
                 <<"VM ID must be an integer, got ", vm_id.ty>>, <<>>)>>
    ELSE IF vm_id.n < min_id \/ vm_id.n > max_id
    THEN <<Error("ValueError",
                 <<"VM ID must be between ", ToString(min_id), " and ",
                   ToString(max_id), ", got ", ToString(vm_id.n)>>, <<>>)>>
    ELSE <<>>

\* " ".join(command)
RECURSIVE JoinCommand(_)
JoinCommand(command) ==
    IF command = <<>> THEN <<>>
    ELSE IF Len(command) = 1 THEN Head(command)
    ELSE Head(command) \o <<" ">> \o JoinCommand(Tail(command))

\* What the spawned process does: it exits with a code, or outlives the timeout.
Exited(returncode) ==
    [timed_out |-> FALSE, returncode |-> returncode,
     stderr |-> IF returncode = 0 THEN <<>> ELSE <<"error">>]
TimedOut == [timed_out |-> TRUE, returncode |-> 0, stderr |-> <<>>]
ProcOutcomes == {Exited(0), Exited(1), TimedOut}

\* run_command that reports command[0] instead of the joined command.
run_command_unjoined(command, check, timeout, out) ==
    IF out.timed_out
    THEN [raised |-> <<ProxmoxCommandError(
                        Head(command), -1,
                        <<"Command timed out after ", ToString(timeout),
                          " seconds">>,
                        <<Error("TimeoutExpired", <<>>, <<>>)>>)>>,
          returncode |-> -1]
    ELSE IF check /\ out.returncode # 0
    THEN [raised |-> <<ProxmoxCommandError(
                        Head(command), out.returncode, out.stderr, <<>>)>>,
          returncode |-> out.returncode]
    ELSE [raised |-> <<>>, returncode |-> out.returncode]

\* run_command that lets a timeout pass as a result when check is false.
run_command_timeout_checked(command, check, timeout, out) ==
    IF out.timed_out /\ check
    THEN [raised |-> <<ProxmoxCommandError(
                        JoinCommand(command), -1,
                        <<"Command timed out after ", ToString(timeout),
                          " seconds">>,
                        <<Error("TimeoutExpired", <<>>, <<>>)>>)>>,
          returncode |-> -1]
    ELSE IF out.timed_out
    THEN [raised |-> <<>>, returncode |-> -1]
    ELSE IF check /\ out.returncode # 0
    THEN [raised |-> <<ProxmoxCommandError(
                        JoinCommand(command), out.returncode, out.stderr,
                        <<>>)>>,
          returncode |-> out.returncode]
    ELSE [raised |-> <<>>, returncode |-> out.returncode]

\* run_command that never looks at the exit code.
run_command_unchecked(command, check, timeout, out) ==
    IF out.timed_out
    THEN [raised |-> <<ProxmoxCommandError(
                        JoinCommand(command), -1,
                        <<"Command timed out after ", ToString(timeout),
                          " seconds">>,
                        <<Error("TimeoutExpired", <<>>, <<>>)>>)>>,
          returncode |-> -1]
    ELSE [raised |-> <<>>, returncode |-> out.returncode]

run_command(command, check, timeout, out) ==
    IF out.timed_out
    THEN [raised |-> <<ProxmoxCommandError(
                        JoinCommand(command), -1,
                        <<"Command timed out after ", ToString(timeout),
                          " seconds">>,
                        <<Error("TimeoutExpired", <<>>, <<>>)>>)>>,
          returncode |-> -1]
    ELSE IF check /\ out.returncode # 0
    THEN [raised |-> <<ProxmoxCommandError(
                        JoinCommand(command), out.returncode, out.stderr,
                        <<>>)>>,
          returncode |-> out.returncode]
    ELSE [raised |-> <<>>, returncode |-> out.returncode]

MaxNameLength == 64

Letters ==
    {"a", "b", "c", "d", "e", "f", "g", "h", "i", "j", "k", "l", "m", "n", "o",
     "p", "q", "r", "s", "t", "u", "v", "w", "x", "y", "z",
     "A", "B", "C", "D", "E", "F", "G", "H", "I", "J", "K", "L", "M", "N", "O",
     "P", "Q", "R", "S", "T", "U", "V", "W", "X", "Y", "Z"}
Digits == {"0", "1", "2", "3", "4", "5", "6", "7", "8", "9"}

\* The characters the pattern [^a-zA-Z0-9\-_] leaves in place.
AllowedChars == Letters \cup Digits \cup {"-", "_"}

\* The characters str.strip() removes.
Whitespace == {" ", "\t", "\n", "\r"}

\* re.sub(r"[^a-zA-Z0-9\-_]", "", name)
\* re.sub with count=1: only the first invalid character is removed.
StripInvalid_first(name) ==
    IF \A i \in 1..Len(name) : name[i] \in AllowedChars THEN name
    ELSE LET k == CHOOSE i \in 1..Len(name) :
                    /\ name[i] \notin AllowedChars
                    /\ \A j \in 1..(i - 1) : name[j] \in AllowedChars
         IN SubSeq(name, 1, k - 1) \o SubSeq(name, k + 1, Len(name))

IsAllowedChar(c) == c \in AllowedChars
StripInvalid(name) == SelectSeq(name, IsAllowedChar)

\* sanitize_vm_name that rejects a stripped name of 64 characters too.
sanitize_vm_name_short(name) ==
    IF name = <<>> \/ \A i \in 1..Len(name) : name[i] \in Whitespace
    THEN [raised |-> <<Error("ValueError", <<"VM name cannot be empty">>,
                             <<>>)>>,
          value |-> <<>>]
    ELSE IF StripInvalid(name) = <<>>
    THEN [raised |-> <<Error("ValueError",
                             <<"VM name '">> \o name
                                 \o <<"' contains no valid characters">>,
                             <<>>)>>,
          value |-> <<>>]
    ELSE IF Len(StripInvalid(name)) >= MaxNameLength
    THEN [raised |-> <<Error("ValueError",
                             <<"VM name too long (max 64 characters): ">>
                                 \o StripInvalid(name),
                             <<>>)>>,
          value |-> <<>>]
    ELSE [raised |-> <<>>, value |-> StripInvalid(name)]

sanitize_vm_name(name) ==
    IF name = <<>> \/ \A i \in 1..Len(name) : name[i] \in Whitespace
    THEN [raised |-> <<Error("ValueError", <<"VM name cannot be empty">>,
                             <<>>)>>,
          value |-> <<>>]
    ELSE IF StripInvalid(name) = <<>>
    THEN [raised |-> <<Error("ValueError",
                             <<"VM name '">> \o name
                                 \o <<"' contains no valid characters">>,
                             <<>>)>>,
          value |-> <<>>]
    ELSE IF Len(StripInvalid(name)) > MaxNameLength
    THEN [raised |-> <<Error("ValueError",
                             <<"VM name too long (max 64 characters): ">>
                                 \o StripInvalid(name),
                             <<>>)>>,
          value |-> <<>>]
    ELSE [raised |-> <<>>, value |-> StripInvalid(name)]

\* The retry decorator of download_file: stop_after_attempt(3).
StopAfterAttempt == 3

\* One attempt of the body of download_file.  requests.get or raise_for_status
\* fails before the destination is opened; the transfer breaks after the
\* destination was opened "wb"; the destination cannot be opened; a write to
\* it fails; or the whole body is written.
DownloadOutcomes == {"ok", "net_early", "net_mid", "os_open", "os_write"}

\* The exception one attempt raises.
download_attempt_error(url, out) ==
    IF out \in {"net_early", "net_mid"}
    THEN <<Error("NetworkError", <<"Failed to download ">> \o url,
                 <<Error("RequestException", <<>>, <<>>)>>)>>
    ELSE IF out \in {"os_open", "os_write"}
    THEN <<Error("OSError", <<>>, <<>>)>>
    ELSE <<>>

\* The destination file after one attempt.
download_attempt_file(before, out) ==
    CASE out = "ok" -> "complete"
      [] out \in {"net_mid", "os_write"} -> "partial"
      [] OTHER -> before

\* The retry decorator stopping one attempt early.
download_retry_early(n, raised) ==
    IF raised = <<>> THEN [do |-> "return", raised |-> <<>>]
    ELSE IF raised[1].kind # "NetworkError"
    THEN [do |-> "raise", raised |-> raised]
    ELSE IF n >= StopAfterAttempt - 1
    THEN [do |-> "raise",
          raised |-> <<Error("RetryError", <<"RetryError">>, raised)>>]
    ELSE [do |-> "retry", raised |-> <<>>]

\* The retry decorator retrying whatever the attempt raised.
download_retry_any_exception(n, raised) ==
    IF raised = <<>> THEN [do |-> "return", raised |-> <<>>]
    ELSE IF n >= StopAfterAttempt
    THEN [do |-> "raise",
          raised |-> <<Error("RetryError", <<"RetryError">>, raised)>>]
    ELSE [do |-> "retry", raised |-> <<>>]

\* A retry decorator with no stop condition.
download_retry_forever(n, raised) ==
    IF raised = <<>> THEN [do |-> "return", raised |-> <<>>]
    ELSE IF raised[1].kind # "NetworkError"
    THEN [do |-> "raise", raised |-> raised]
    ELSE [do |-> "retry", raised |-> <<>>]

\* What the retry decorator does with the outcome of attempt number n:
\* "return", "retry", or "raise" with the exception that leaves download_file.
download_retry(n, raised) ==
    IF raised = <<>> THEN [do |-> "return", raised |-> <<>>]
    ELSE IF raised[1].kind # "NetworkError"
    THEN [do |-> "raise", raised |-> raised]
    ELSE IF n >= StopAfterAttempt
    THEN [do |-> "raise",
          raised |-> <<Error("RetryError", <<"RetryError">>, raised)>>]
    ELSE [do |-> "retry", raised |-> <<>>]

----------------------------------------------------------------------------
(* template.py *)

ImportTimeout == 600

_get_image_url(release) ==
    config.ubuntu_image_base_url \o <<"/">> \o ReleaseValue(release)
        \o <<"/current/">> \o ReleaseValue(release)
        \o <<"-server-cloudimg-amd64.img">>

_get_image_path(release) ==
    <<"/tmp/">> \o ReleaseValue(release) \o <<"-server-cloudimg-amd64.img">>

\* An exists check that never finds the file.
Exists_never(release) == FALSE

\* image_path.exists()
Exists(release) == file[release] # "absent"

DefaultTemplateName(release) ==
    <<"u", "b", "u", "n", "t", "u", "-">> \o ReleaseValue(release)
        \o <<"-", "t", "e", "m", "p", "l", "a", "t", "e">>

CreateArgv(template_id, template_name, memory_mb) ==
    <<<<"qm">>, <<"create">>, PyStr(template_id), <<"--name">>, template_name,
      <<"--memory">>, <<ToString(memory_mb)>>, <<"--net0">>,
      <<"virtio,bridge=">> \o config.vm_bridge>>

ImportDiskArgv(template_id, image_path) ==
    <<<<"qm">>, <<"importdisk">>, PyStr(template_id), image_path,
      config.data_store, <<"-format">>, <<"qcow2">>>>

ScsiArgv(template_id) ==
    <<<<"qm">>, <<"set">>, PyStr(template_id), <<"--scsihw">>,
      <<"virtio-scsi-pci">>, <<"--scsi0">>,
      config.data_store \o <<":vm-">> \o PyStr(template_id) \o <<"-disk-0">>>>

BootArgv(vm_id) ==
    <<<<"qm">>, <<"set">>, PyStr(vm_id), <<"--ide2">>,
      config.data_store \o <<":cloudinit">>, <<"--boot">>, <<"c">>,
      <<"--bootdisk">>, <<"scsi0">>, <<"--serial0">>, <<"socket">>,
      <<"--vga">>, <<"serial0">>>>

ResizeArgv(template_id, increase_gb) ==
    <<<<"qm">>, <<"resize">>, PyStr(template_id), <<"scsi0">>,
      <<"+", ToString(increase_gb), "G">>>>

IpconfigArgv(vm_id) ==
    <<<<"qm">>, <<"set">>, PyStr(vm_id), <<"--ipconfig0">>, <<"ip=dhcp">>>>

SshkeyArgv(template_id) ==
    <<<<"qm">>, <<"set">>, PyStr(template_id), <<"--sshkey">>,
      config.ssh_key_path[1]>>

CloudinitDumpArgv(template_id) ==
    <<<<"qm">>, <<"cloudinit">>, <<"dump">>, PyStr(template_id), <<"user">>>>

TemplateArgv(template_id) == <<<<"qm">>, <<"template">>, PyStr(template_id)>>

\* The workflow with the conversion to a template made before cloud-init.
TemplateSteps_convert_first ==
    <<"t_download", "t_create", "t_import", "t_scsi", "t_boot", "t_resize",
      "t_template", "t_ipconfig", "t_sshkey", "t_dump", "t_cleanup">>

\* The helper calls of create_template, one step per external interaction,
\* in the order the body makes them.
TemplateSteps ==
    <<"t_download", "t_create", "t_import", "t_scsi", "t_boot", "t_resize",
      "t_ipconfig", "t_sshkey", "t_dump", "t_template", "t_cleanup">>

RECURSIVE IndexOf(_, _)
IndexOf(seq, x) ==
    IF seq = <<>> THEN 1
    ELSE IF Head(seq) = x THEN 1
    ELSE 1 + IndexOf(Tail(seq), x)

\* The position control reaches when `step` of `steps` returns normally.
After(steps, step) ==
    IF IndexOf(steps, step) >= Len(steps) THEN "done"
    ELSE steps[IndexOf(steps, step) + 1]

\* An except clause that lets the exception through as it is.
create_template_except_reraise(template_id, e, log) ==
    [raised |-> <<e>>, cmds |-> log]

\* The except clause of create_template: the exception that leaves the call,
\* and the command log when it does.
create_template_except(template_id, e, log) ==
    [raised |-> <<Error("TemplateCreationError",
                        <<"Failed to create template ">> \o PyStr(template_id)
                            \o <<": ">> \o e.msg,
                        <<e>>)>>,
     cmds |-> log]

\* The hypervisor after a command: create and clone add a VM, destroy removes
\* one, when the command exits with code 0.
HvAfter(h, argv, out) ==
    IF out.timed_out \/ out.returncode # 0 THEN h
    ELSE IF argv[2] = <<"create">> THEN h \cup {argv[3]}
    ELSE IF argv[2] = <<"clone">> THEN h \cup {argv[4]}
    ELSE IF argv[2] = <<"destroy">> THEN h \ {argv[3]}
    ELSE h

Issued(argv, check, timeout, out) ==
    [argv |-> argv, check |-> check, timeout |-> timeout, out |-> out]

NoCall == [op |-> "none"]
\* found: the state of the image file at the exists check, once made;
\* called: download_file was called; attempts: the attempts it made;
\* raised: what each attempt raised, in order ("" for none).
NoDownloads ==
    [found |-> <<>>, called |-> FALSE, attempts |-> 0, raised |-> <<>>]
NoResult == [status |-> "none", raised |-> <<>>]

TemplateIds == {IntId(50), IntId(100), StrId(100)}
TemplateNames == {<<>>, <<<<"t", "-", "1">>>>}
MemoryValues == {<<>>, <<4096>>}
DiskIncreaseValues == {<<>>, <<-5>>, <<0>>, <<50>>}

TFail(e, log) ==
    LET h == create_template_except(call.template_id, e, log)
    IN /\ pc' = "failed"
       /\ result' = [status |-> "error", raised |-> h.raised]
       /\ cmds' = h.cmds

\* TemplateCreator(cfg).create_template(...) up to the start of the workflow:
\* validation and defaults.
CreateTemplateWith(cfg, release, template_id, template_name, memory_mb, disk_increase_gb, keep_image) ==
    /\ pc = "idle"
    /\ calls < MaxCalls
    /\ calls' = calls + 1
    /\ call' = [op |-> "create_template",
                release |-> release,
                template_id |-> template_id,
                template_name |-> IF template_name = <<>>
                                  THEN DefaultTemplateName(release)
                                  ELSE template_name[1],
                memory_mb |-> IF memory_mb = <<>>
                              THEN cfg.template_memory_mb
                              ELSE memory_mb[1],
                disk_increase_gb |-> IF disk_increase_gb = <<>>
                                     THEN cfg.template_disk_increase_gb
                                     ELSE disk_increase_gb[1],
                keep_image |-> keep_image,
                given |-> [template_name |-> template_name,
                           memory_mb |-> memory_mb,
                           disk_increase_gb |-> disk_increase_gb]]
    /\ downloads' = NoDownloads
    /\ LET v == validate_vm_id(template_id, 100, DefaultMaxId)
       IN IF v # <<>>
          THEN LET h == create_template_except(template_id, v[1], <<>>)
               IN /\ pc' = "failed"
                  /\ result' = [status |-> "error", raised |-> h.raised]
                  /\ cmds' = h.cmds
          ELSE /\ pc' = TemplateSteps[1]
               /\ result' = NoResult
               /\ cmds' = <<>>
    /\ config' = cfg
    /\ UNCHANGED <<file, hv>>

\* create_template of a creator that holds the current configuration.
CreateTemplate(release, template_id, template_name, memory_mb, disk_increase_gb, keep_image) ==
    /\ pc = "idle"
    /\ CreateTemplateWith(config, release, template_id, template_name,
                          memory_mb, disk_increase_gb, keep_image)

\* _download_image: the exists check, and the call of download_file.
TDownloadImage ==
    /\ pc = "t_download"
    /\ IF Exists(call.release)
       THEN /\ pc' = After(TemplateSteps, "t_download")
            /\ downloads' = [downloads EXCEPT
                                !.found = <<file[call.release]>>]
       ELSE /\ pc' = "t_attempt"
            /\ downloads' = [downloads EXCEPT
                                !.found = <<file[call.release]>>,
                                !.called = TRUE]
    /\ UNCHANGED <<config, file, hv, call, cmds, result, calls>>

\* One attempt of download_file, and the retry decorator's decision.
TDownloadAttempt ==
    /\ pc = "t_attempt"
    /\ \E out \in DownloadOutcomes :
         LET n == downloads.attempts + 1
             e == download_attempt_error(_get_image_url(call.release), out)
             d == download_retry(n, e)
         IN /\ downloads' = [downloads EXCEPT
                                !.attempts = n,
                                !.raised = Append(@, IF e = <<>> THEN ""
                                                     ELSE e[1].kind)]
            /\ file' = [file EXCEPT ![call.release] =
                            download_attempt_file(@, out)]
            /\ CASE d.do = "return" ->
                      /\ pc' = After(TemplateSteps, "t_download")
                      /\ UNCHANGED <<result, cmds>>
                 [] d.do = "retry" ->
                      /\ pc' = "t_attempt"
                      /\ UNCHANGED <<result, cmds>>
                 [] OTHER -> TFail(d.raised[1], cmds)
    /\ UNCHANGED <<config, hv, call, calls>>

\* A run_command call whose failure also runs the cleanup, as a finally
\* clause around the workflow would.
TRun_finally_cleanup(step, argv, check, timeout) ==
    /\ pc = step
    /\ \E out \in ProcOutcomes :
         LET r == run_command(argv, check, timeout, out)
             log == Append(cmds, Issued(argv, check, timeout, out))
         IN /\ hv' = HvAfter(hv, argv, out)
            /\ IF r.raised # <<>>
               THEN /\ TFail(r.raised[1], log)
                    /\ file' = IF call.keep_image THEN file
                               ELSE [file EXCEPT ![call.release] = "absent"]
               ELSE /\ pc' = After(TemplateSteps, step)
                    /\ cmds' = log
                    /\ UNCHANGED <<result, file>>
    /\ UNCHANGED <<config, call, downloads, calls>>

\* One run_command call of the template workflow.
TRun(step, argv, check, timeout) ==
    /\ pc = step
    /\ \E out \in ProcOutcomes :
         LET r == run_command(argv, check, timeout, out)
             log == Append(cmds, Issued(argv, check, timeout, out))
         IN /\ hv' = HvAfter(hv, argv, out)
            /\ IF r.raised # <<>>
               THEN TFail(r.raised[1], log)
               ELSE /\ pc' = After(TemplateSteps, step)
                    /\ cmds' = log
                    /\ UNCHANGED result
    /\ UNCHANGED <<config, file, call, downloads, calls>>

\* A step that issues nothing.
TSkip(step) ==
    /\ pc = step
    /\ pc' = After(TemplateSteps, step)
    /\ UNCHANGED <<config, file, hv, call, cmds, downloads, result, calls>>

\* A create step that always takes the memory of the configuration.
TCreateVm_config_memory ==
    TRun("t_create",
         CreateArgv(call.template_id, call.template_name,
                    config.template_memory_mb),
         TRUE, DefaultCommandTimeout)

TCreateVm ==
    TRun("t_create",
         CreateArgv(call.template_id, call.template_name, call.memory_mb),
         TRUE, DefaultCommandTimeout)

TImportDisk ==
    TRun("t_import",
         ImportDiskArgv(call.template_id, _get_image_path(call.release)),
         TRUE, ImportTimeout)

TConfigureScsi ==
    TRun("t_scsi", ScsiArgv(call.template_id), TRUE, DefaultCommandTimeout)

TConfigureBoot ==
    TRun("t_boot", BootArgv(call.template_id), TRUE, DefaultCommandTimeout)

\* A resize step that skips only a negative increase.
TResizeDisk_zero_runs ==
    IF pc = "t_resize" /\ call.disk_increase_gb < 0
    THEN TSkip("t_resize")
    ELSE TRun("t_resize",
              ResizeArgv(call.template_id, call.disk_increase_gb),
              TRUE, DefaultCommandTimeout)

TResizeDisk ==
    IF pc = "t_resize" /\ call.disk_increase_gb <= 0
    THEN TSkip("t_resize")
    ELSE TRun("t_resize",
              ResizeArgv(call.template_id, call.disk_increase_gb),
              TRUE, DefaultCommandTimeout)

TCloudInitNetwork ==
    TRun("t_ipconfig", IpconfigArgv(call.template_id), TRUE,
         DefaultCommandTimeout)

\* A cloud-init step that never adds the SSH key.
TCloudInitSshKey_never == TSkip("t_sshkey")

TCloudInitSshKey ==
    IF pc = "t_sshkey" /\ config.ssh_key_path # <<>>
    THEN TRun("t_sshkey", SshkeyArgv(call.template_id), TRUE,
              DefaultCommandTimeout)
    ELSE TSkip("t_sshkey")

TCloudInitDump ==
    TRun("t_dump", CloudinitDumpArgv(call.template_id), FALSE,
         DefaultCommandTimeout)

TConvertToTemplate ==
    TRun("t_template", TemplateArgv(call.template_id), TRUE,
         DefaultCommandTimeout)

\* A cleanup that lets the OSError of unlink() leave _cleanup_image.
TCleanupImage_escalate ==
    /\ pc = "t_cleanup"
    /\ IF call.keep_image
       THEN /\ file' = file
            /\ pc' = After(TemplateSteps, "t_cleanup")
            /\ result' = [status |-> "ok", raised |-> <<>>,
                          unlink |-> "skipped"]
            /\ cmds' = cmds
       ELSE \E unlinked \in BOOLEAN :
              IF unlinked
              THEN /\ file' = [file EXCEPT ![call.release] = "absent"]
                   /\ pc' = After(TemplateSteps, "t_cleanup")
                   /\ result' = [status |-> "ok", raised |-> <<>>,
                                 unlink |-> "ok"]
                   /\ cmds' = cmds
              ELSE /\ file' = file
                   /\ TFail(Error("OSError", <<>>, <<>>), cmds)
    /\ UNCHANGED <<config, hv, call, downloads, calls>>

\* _cleanup_image, and the return of create_template.  With keep_image the
\* file is left alone; otherwise unlink() removes it, or raises an OSError
\* that is caught and reported as a warning.
TCleanupImage ==
    /\ pc = "t_cleanup"
    /\ IF call.keep_image
       THEN /\ file' = file
            /\ result' = [status |-> "ok", raised |-> <<>>,
                          unlink |-> "skipped"]
       ELSE \E unlinked \in BOOLEAN :
              /\ file' = IF unlinked
                         THEN [file EXCEPT ![call.release] = "absent"]
                         ELSE file
              /\ result' = [status |-> "ok", raised |-> <<>>,
                            unlink |-> IF unlinked THEN "ok" ELSE "failed"]
    /\ pc' = After(TemplateSteps, "t_cleanup")
    /\ UNCHANGED <<config, hv, call, cmds, downloads, calls>>

\* The caller has the outcome; the next call can begin.
Return ==
    /\ pc \in {"done", "failed"}
    /\ pc' = "idle"
    /\ call' = NoCall
    /\ cmds' = <<>>
    /\ downloads' = NoDownloads
    /\ result' = NoResult
    /\ UNCHANGED <<config, file, hv, calls>>

----------------------------------------------------------------------------
(* vm.py *)

CloneArgv(template_id, vm_id, vm_name) ==
    <<<<"qm">>, <<"clone">>, PyStr(template_id), PyStr(vm_id), <<"--name">>,
      vm_name>>

StartArgv(vm_id) == <<<<"qm">>, <<"start">>, PyStr(vm_id)>>

\* The values of start_vm and configure_network when a caller of create_vm
\* leaves them out.
DefaultStartVm == FALSE
DefaultConfigureNetwork == TRUE

\* create_vm setting the network before it configures the hardware.
VmSteps_network_first == <<"v_clone", "v_network", "v_configure", "v_start">>

\* The steps of create_vm, one per external interaction, in the order the
\* body makes them.
VmSteps == <<"v_clone", "v_configure", "v_network", "v_start">>

\* An except clause that lets the exception pass as it is.
create_vm_except_reraise(template_id, vm_id, e, log) ==
    [raised |-> <<e>>, cmds |-> log]

\* An except clause that destroys the VM before it raises.
create_vm_except_rollback(template_id, vm_id, e, log) ==
    [raised |-> <<Error("VMCreationError",
                        <<"Failed to create VM ">> \o PyStr(vm_id)
                            \o <<" from template ">> \o PyStr(template_id)
                            \o <<": ">> \o e.msg,
                        <<e>>)>>,
     cmds |-> Append(log, [argv |-> <<<<"qm">>, <<"destroy">>, PyStr(vm_id)>>,
                           check |-> TRUE,
                           timeout |-> DefaultCommandTimeout,
                           out |-> Exited(0)])]

\* The except clause of create_vm: the exception that leaves the call, and
\* the command log when it does.
create_vm_except(template_id, vm_id, e, log) ==
    [raised |-> <<Error("VMCreationError",
                        <<"Failed to create VM ">> \o PyStr(vm_id)
                            \o <<" from template ">> \o PyStr(template_id)
                            \o <<": ">> \o e.msg,
                        <<e>>)>>,
     cmds |-> log]

\* The checks of create_vm without the comparison of the two ids.
create_vm_validate_no_compare(template_id, vm_id, vm_name) ==
    IF validate_vm_id(template_id, 100, DefaultMaxId) # <<>>
    THEN validate_vm_id(template_id, 100, DefaultMaxId)
    ELSE IF validate_vm_id(vm_id, 100, DefaultMaxId) # <<>>
    THEN validate_vm_id(vm_id, 100, DefaultMaxId)
    ELSE IF sanitize_vm_name(vm_name).raised # <<>>
    THEN <<Error("ValidationError",
                 <<"Invalid VM name: ">>
                     \o sanitize_vm_name(vm_name).raised[1].msg,
                 sanitize_vm_name(vm_name).raised)>>
    ELSE <<>>

\* The checks create_vm makes before its first command: the exception they
\* raise, if any.
create_vm_validate(template_id, vm_id, vm_name) ==
    IF validate_vm_id(template_id, 100, DefaultMaxId) # <<>>
    THEN validate_vm_id(template_id, 100, DefaultMaxId)
    ELSE IF validate_vm_id(vm_id, 100, DefaultMaxId) # <<>>
    THEN validate_vm_id(vm_id, 100, DefaultMaxId)
    ELSE IF template_id = vm_id
    THEN <<Error("ValidationError",
                 <<"Template ID and VM ID ", "cannot be the same", ": ">>
                     \o PyStr(template_id),
                 <<>>)>>
    ELSE IF sanitize_vm_name(vm_name).raised # <<>>
    THEN <<Error("ValidationError",
                 <<"Invalid VM name: ">>
                     \o sanitize_vm_name(vm_name).raised[1].msg,
                 sanitize_vm_name(vm_name).raised)>>
    ELSE <<>>

VmIds == {IntId(50), IntId(100), IntId(101), StrId(100)}
VmNames == {<<"v", "m">>, <<"v", ";", "m">>, <<";">>, <<" ">>, <<>>}

VFail(e, log) ==
    LET h == create_vm_except(call.template_id, call.vm_id, e, log)
    IN /\ pc' = "failed"
       /\ result' = [status |-> "error", raised |-> h.raised]
       /\ cmds' = h.cmds

\* VMCreator(cfg).create_vm(...) up to the start of the workflow: validation
\* and sanitization.
CreateVmWith(cfg, template_id, vm_id, vm_name, start_vm, configure_network) ==
    /\ pc = "idle"
    /\ calls < MaxCalls
    /\ calls' = calls + 1
    /\ call' = [op |-> "create_vm",
                template_id |-> template_id,
                vm_id |-> vm_id,
                vm_name |-> vm_name,
                safe_vm_name |-> sanitize_vm_name(vm_name).value,
                start_vm |-> start_vm,
                configure_network |-> configure_network]
    /\ downloads' = NoDownloads
    /\ LET v == create_vm_validate(template_id, vm_id, vm_name)
       IN IF v # <<>>
          THEN LET h == create_vm_except(template_id, vm_id, v[1], <<>>)
               IN /\ pc' = "failed"
                  /\ result' = [status |-> "error", raised |-> h.raised]
                  /\ cmds' = h.cmds
          ELSE /\ pc' = VmSteps[1]
               /\ result' = NoResult
               /\ cmds' = <<>>
    /\ config' = cfg
    /\ UNCHANGED <<file, hv>>

\* create_vm of a creator that holds the current configuration.
CreateVm(template_id, vm_id, vm_name, start_vm, configure_network) ==
    /\ pc = "idle"
    /\ CreateVmWith(config, template_id, vm_id, vm_name, start_vm,
                    configure_network)

\* One run_command call of the VM workflow.
VRun(step, argv, check, timeout) ==
    /\ pc = step
    /\ \E out \in ProcOutcomes :
         LET r == run_command(argv, check, timeout, out)
             log == Append(cmds, Issued(argv, check, timeout, out))
         IN /\ hv' = HvAfter(hv, argv, out)
            /\ IF r.raised # <<>>
               THEN VFail(r.raised[1], log)
               ELSE /\ pc' = After(VmSteps, step)
                    /\ cmds' = log
                    /\ result' = IF After(VmSteps, step) = "done"
                                 THEN [status |-> "ok", raised |-> <<>>]
                                 ELSE result
    /\ UNCHANGED <<config, file, call, downloads, calls>>

\* A step of create_vm that issues nothing.
VSkip(step) ==
    /\ pc = step
    /\ pc' = After(VmSteps, step)
    /\ result' = IF After(VmSteps, step) = "done"
                 THEN [status |-> "ok", raised |-> <<>>]
                 ELSE result
    /\ UNCHANGED <<config, file, hv, call, cmds, downloads, calls>>

VCloneVm ==
    VRun("v_clone",
         CloneArgv(call.template_id, call.vm_id, call.safe_vm_name),
         TRUE, DefaultCommandTimeout)

VConfigureVm ==
    VRun("v_configure", BootArgv(call.vm_id), TRUE, DefaultCommandTimeout)

VSetCloudInitNetwork ==
    IF pc = "v_network" /\ ~call.configure_network
    THEN VSkip("v_network")
    ELSE VRun("v_network", IpconfigArgv(call.vm_id), TRUE,
              DefaultCommandTimeout)

VStartVm ==
    IF pc = "v_start" /\ ~call.start_vm
    THEN VSkip("v_start")
    ELSE VRun("v_start", StartArgv(call.vm_id), TRUE, DefaultCommandTimeout)

----------------------------------------------------------------------------
(* The workflows, called one after another *)

Init ==
    /\ config \in Configs
    /\ file = [r \in Releases |-> "absent"]
    /\ hv = {}
    /\ pc = "idle"
    /\ call = NoCall
    /\ cmds = <<>>
    /\ downloads = NoDownloads
    /\ result = NoResult
    /\ calls = 0

Next ==
    \/ \E release \in Releases, template_id \in TemplateIds,
          template_name \in TemplateNames, memory_mb \in MemoryValues,
          disk_increase_gb \in DiskIncreaseValues, keep_image \in BOOLEAN :
         CreateTemplate(release, template_id, template_name, memory_mb,
                        disk_increase_gb, keep_image)
    \/ TDownloadImage
    \/ TDownloadAttempt
    \/ TCreateVm
    \/ TImportDisk
    \/ TConfigureScsi
    \/ TConfigureBoot
    \/ TResizeDisk
    \/ TCloudInitNetwork
    \/ TCloudInitSshKey
    \/ TCloudInitDump
    \/ TConvertToTemplate
    \/ TCleanupImage
    \/ \E template_id \in VmIds, vm_id \in VmIds, vm_name \in VmNames,
          start_vm \in BOOLEAN, configure_network \in BOOLEAN :
         CreateVm(template_id, vm_id, vm_name, start_vm, configure_network)
    \/ VCloneVm
    \/ VConfigureVm
    \/ VSetCloudInitNetwork
    \/ VStartVm
    \/ Return

Spec == Init /\ [][Next]_vars

\* The steps inside a call.  A call that has begun runs on by itself: every
\* run_command call returns or reaches its timeout, every download attempt
\* returns or raises, and the interpreter then executes the next statement.
\* Beginning a call, and taking its outcome, are the caller's.
WorkflowStep ==
    \/ TDownloadImage
    \/ TDownloadAttempt
    \/ TCreateVm
    \/ TImportDisk
    \/ TConfigureScsi
    \/ TConfigureBoot
    \/ TResizeDisk
    \/ TCloudInitNetwork
    \/ TCloudInitSshKey
    \/ TCloudInitDump
    \/ TConvertToTemplate
    \/ TCleanupImage
    \/ VCloneVm
    \/ VConfigureVm
    \/ VSetCloudInitNetwork
    \/ VStartVm

SpecTermination == Init /\ [][Next]_vars /\ WF_vars(WorkflowStep)

----------------------------------------------------------------------------
(* The template workflow under every max_retries value, called with the
   default name, memory and disk increase *)

InitRetries ==
    /\ config \in RetryConfigs
    /\ file = [r \in Releases |-> "absent"]
    /\ hv = {}
    /\ pc = "idle"
    /\ call = NoCall
    /\ cmds = <<>>
    /\ downloads = NoDownloads
    /\ result = NoResult
    /\ calls = 0

NextRetries ==
    \/ \E release \in Releases, template_id \in TemplateIds,
          keep_image \in BOOLEAN :
         CreateTemplate(release, template_id, <<>>, <<>>, <<>>, keep_image)
    \/ TDownloadImage
    \/ TDownloadAttempt
    \/ TCreateVm
    \/ TImportDisk
    \/ TConfigureScsi
    \/ TConfigureBoot
    \/ TResizeDisk
    \/ TCloudInitNetwork
    \/ TCloudInitSshKey
    \/ TCloudInitDump
    \/ TConvertToTemplate
    \/ TCleanupImage
    \/ Return

SpecRetries == InitRetries /\ [][NextRetries]_vars

----------------------------------------------------------------------------
(* The helpers of utils.py, called directly *)

Repeat(c, n) == [i \in 1..n |-> c]

\* Names given to sanitize_vm_name: empty, whitespace only, invalid characters
\* only, valid and invalid characters mixed, valid names, and names around
\* the length limit, one of them longer than the limit only before stripping.
NameInputs ==
    {<<>>, <<" ">>, <<" ", "\t">>, <<";", ";", ";">>,
     <<"b", "a", "d", ";", "n", "a", "m", "e">>,
     <<"m", "y", ";", "v", "m">>,
     <<"v", ";", ";", "m">>,
     <<" ", "v", "m", " ">>,
     <<"m", "y", "-", "v", "m", "_", "0", "1">>,
     <<"V", "M", "-", "1", "2", "3">>,
     Repeat("a", MaxNameLength - 1),
     Repeat("a", MaxNameLength),
     Repeat("a", MaxNameLength + 1),
     Repeat("a", 100),
     <<";">> \o Repeat("a", MaxNameLength) \o <<";">>}

\* Ids given to validate_vm_id: integers around each limit, and values that
\* are not integers.
IdInputs ==
    {IntId(n) : n \in {-1, 0, 50, 99, 100, 101, 8999, 9000, 9001, 9999, 10000,
                       DefaultMaxId - 1, DefaultMaxId, DefaultMaxId + 1}}
        \cup {StrId(100), [ty |-> "float", n |-> 100]}

\* The limits given to validate_vm_id: the defaults, a raised minimum, a
\* lowered maximum.
IdLimits ==
    {[min_id |-> DefaultMinId, max_id |-> DefaultMaxId],
     [min_id |-> 9000, max_id |-> DefaultMaxId],
     [min_id |-> DefaultMinId, max_id |-> 9999]}

CommandInputs ==
    {<<<<"false">>>>, <<<<"echo">>, <<"test">>>>,
     <<<<"qm">>, <<"status">>, <<"100">>>>}

TimeoutInputs == {DefaultCommandTimeout, ImportTimeout}

\* What the process of a directly run command does: besides the outcomes of
\* the workflows, other exit codes, an exit on a signal (a negative code) and
\* a failure that writes nothing to stderr.
DirectOutcomes ==
    ProcOutcomes
        \cup {Exited(2), Exited(-1),
              [timed_out |-> FALSE, returncode |-> 3, stderr |-> <<>>]}

\* sanitize_vm_name(name)
SanitizeVmName(name, again) ==
    /\ calls' = calls + 1
    /\ call' = [op |-> "sanitize_vm_name", name |-> name, again |-> again]
    /\ LET r == sanitize_vm_name(name)
       IN /\ pc' = IF r.raised # <<>> THEN "failed" ELSE "done"
          /\ result' = [status |-> IF r.raised # <<>> THEN "error" ELSE "ok",
                        raised |-> r.raised,
                        value |-> r.value]
    /\ cmds' = <<>>
    /\ downloads' = NoDownloads
    /\ UNCHANGED <<config, file, hv>>

\* A caller sanitizes a name it got from outside.
SanitizeInput ==
    /\ pc = "idle"
    /\ calls < MaxCalls
    /\ \E name \in NameInputs : SanitizeVmName(name, FALSE)

\* A caller sanitizes the name an earlier sanitize_vm_name call returned.
SanitizeOutput ==
    /\ pc = "done"
    /\ call.op = "sanitize_vm_name"
    /\ calls < MaxCalls
    /\ SanitizeVmName(result.value, TRUE)

\* validate_vm_id(vm_id, min_id, max_id)
ValidateVmId(vm_id, min_id, max_id) ==
    /\ pc = "idle"
    /\ calls < MaxCalls
    /\ calls' = calls + 1
    /\ call' = [op |-> "validate_vm_id", vm_id |-> vm_id, min_id |-> min_id,
                max_id |-> max_id]
    /\ LET raised == validate_vm_id(vm_id, min_id, max_id)
       IN /\ pc' = IF raised # <<>> THEN "failed" ELSE "done"
          /\ result' = [status |-> IF raised # <<>> THEN "error" ELSE "ok",
                        raised |-> raised]
    /\ cmds' = <<>>
    /\ downloads' = NoDownloads
    /\ UNCHANGED <<config, file, hv>>

\* run_command(command, check, timeout=timeout)
RunCommand(command, check, timeout) ==
    /\ pc = "idle"
    /\ calls < MaxCalls
    /\ calls' = calls + 1
    /\ call' = [op |-> "run_command", command |-> command, check |-> check,
                timeout |-> timeout]
    /\ \E out \in DirectOutcomes :
         LET r == run_command(command, check, timeout, out)
         IN /\ pc' = IF r.raised # <<>> THEN "failed" ELSE "done"
            /\ result' = [status |-> IF r.raised # <<>> THEN "error" ELSE "ok",
                          raised |-> r.raised,
                          returncode |-> r.returncode]
            /\ cmds' = <<Issued(command, check, timeout, out)>>
    /\ downloads' = NoDownloads
    /\ UNCHANGED <<config, file, hv>>

InitUtils ==
    /\ config = ProxmoxConfig(<<>>, DefaultMaxRetries)
    /\ file = [r \in Releases |-> "absent"]
    /\ hv = {}
    /\ pc = "idle"
    /\ call = NoCall
    /\ cmds = <<>>
    /\ downloads = NoDownloads
    /\ result = NoResult
    /\ calls = 0

NextUtils ==
    \/ SanitizeInput
    \/ SanitizeOutput
    \/ \E vm_id \in IdInputs, limits \in IdLimits :
         ValidateVmId(vm_id, limits.min_id, limits.max_id)
    \/ \E command \in CommandInputs, check \in BOOLEAN,
          timeout \in TimeoutInputs :
         RunCommand(command, check, timeout)
    \/ Return

SpecUtils == InitUtils /\ [][NextUtils]_vars

----------------------------------------------------------------------------
(* vm.py: the operations on an existing VM *)

\* The values of force (stop_vm) and purge (delete_vm) when a caller leaves
\* them out.
DefaultForce == FALSE
DefaultPurge == TRUE

\* stop_vm that bypasses the lock on every stop.
StopArgv_always_skiplock(vm_id, force) ==
    <<<<"qm">>, <<"stop">>, PyStr(vm_id), <<"--skiplock">>>>

StopArgv(vm_id, force) ==
    <<<<"qm">>, <<"stop">>, PyStr(vm_id)>>
        \o (IF force THEN <<<<"--skiplock">>>> ELSE <<>>)

StatusArgv(vm_id) == <<<<"qm">>, <<"status">>, PyStr(vm_id)>>

\* delete_vm that never purges.
DestroyArgv_no_purge(vm_id, purge) ==
    <<<<"qm">>, <<"destroy">>, PyStr(vm_id)>>

DestroyArgv(vm_id, purge) ==
    <<<<"qm">>, <<"destroy">>, PyStr(vm_id)>>
        \o (IF purge THEN <<<<"--purge">>>> ELSE <<>>)

\* str.strip(): a text, given character by character, without its leading
\* and trailing whitespace.
Strip(text) ==
    LET solid == {i \in 1..Len(text) : text[i] \notin Whitespace}
    IN IF solid = {} THEN <<>>
       ELSE SubSeq(text,
                   CHOOSE i \in solid : \A j \in solid : i <= j,
                   CHOOSE i \in solid : \A j \in solid : j <= i)

\* str.split("\n"): the pieces of a text between its newlines.
SplitLines(text) ==
    LET breaks == {i \in 1..Len(text) : text[i] = "\n"}
        Break(k) ==
            IF k = 0 THEN 0
            ELSE IF k > Cardinality(breaks) THEN Len(text) + 1
            ELSE CHOOSE p \in breaks :
                     Cardinality({q \in breaks : q < p}) = k - 1
    IN [k \in 1..(Cardinality(breaks) + 1) |->
           SubSeq(text, Break(k - 1) + 1, Break(k) - 1)]

HasColon(line) == \E i \in 1..Len(line) : line[i] = ":"

\* The place of the last colon of a line: line.rsplit(":", 1).
FirstColon_last(line) ==
    CHOOSE i \in 1..Len(line) :
        line[i] = ":" /\ \A j \in (i + 1)..Len(line) : line[j] # ":"

FirstColon(line) ==
    CHOOSE i \in 1..Len(line) :
        line[i] = ":" /\ \A j \in 1..(i - 1) : line[j] # ":"

\* key, value = line.split(":", 1), each stripped.
LineKey(line) == Strip(SubSeq(line, 1, FirstColon(line) - 1))
LineValue(line) == Strip(SubSeq(line, FirstColon(line) + 1, Len(line)))

\* The dictionary get_vm_status builds from the output of `qm status`: a line
\* with a colon sets its key, a later line with the same key overwrites it.
ParseStatus(stdout) ==
    LET lines == SplitLines(Strip(stdout))
        with_colon == {i \in 1..Len(lines) : HasColon(lines[i])}
        keys == {LineKey(lines[i]) : i \in with_colon}
        Last(key) ==
            CHOOSE i \in with_colon :
                /\ LineKey(lines[i]) = key
                /\ \A j \in with_colon : LineKey(lines[j]) = key => j <= i
    IN [key \in keys |-> LineValue(lines[Last(key)])]

\* What `qm status` prints.
StatusOutputs ==
    {<<>>,
     <<"s", ":", " ", "u", "p", "\n">>,
     <<"s", ":", " ", "u", "p", "\n", "n", ":", " ", "v", "m", "\n">>,
     <<"s", ":", "u", "p", "\n", "s", ":", "n", "o">>,
     <<"u", "p", "\n", "\n", "s", ":", "a", ":", "b">>,
     <<"n", "o", "n", "e">>,
     <<"\n", " ", "s", " ", ":", " ", "u", " ", "p", " ", "\r", "\n", ":">>,
     <<"s", "t", "a", "t", "u", "s", ":", " ", "r", "u", "n", "n", "i", "n",
       "g", "\n", "n", "a", "m", "e", ":", " ", "t", "e", "s", "t", "-", "v",
       "m", "\n">>}

\* `qm status` exits with 0 and some output, exits with 1, or times out.
StatusOutcomes ==
    {[timed_out |-> FALSE, returncode |-> 0, stderr |-> <<>>,
      stdout |-> stdout] : stdout \in StatusOutputs}
        \cup {Exited(1), TimedOut}

\* An operation that also wraps what run_command raises.
VmOperation_wrapped(this_call, argv, outcomes) ==
    /\ pc = "idle"
    /\ calls < MaxCalls
    /\ calls' = calls + 1
    /\ call' = this_call
    /\ \E out \in outcomes :
         LET r == run_command(argv, TRUE, DefaultCommandTimeout, out)
         IN /\ cmds' = <<Issued(argv, TRUE, DefaultCommandTimeout, out)>>
            /\ hv' = HvAfter(hv, argv, out)
            /\ pc' = IF r.raised # <<>> THEN "failed" ELSE "done"
            /\ result' =
                 IF r.raised # <<>>
                 THEN [status |-> "error",
                       raised |-> <<Error("VMCreationError",
                                          r.raised[1].msg, r.raised)>>]
                 ELSE [status |-> "ok", raised |-> <<>>, value |-> <<>>]
    /\ downloads' = NoDownloads
    /\ UNCHANGED <<config, file>>

\* start_vm, stop_vm, get_vm_status and delete_vm: one run_command call with
\* the default check and timeout, outside any try; get_vm_status returns the
\* parsed output, the others return None.
VmOperationRun(cfg, this_call, argv, outcomes) ==
    /\ call' = this_call
    /\ \E out \in outcomes :
         LET r == run_command(argv, TRUE, DefaultCommandTimeout, out)
         IN /\ cmds' = <<Issued(argv, TRUE, DefaultCommandTimeout, out)>>
            /\ hv' = HvAfter(hv, argv, out)
            /\ pc' = IF r.raised # <<>> THEN "failed" ELSE "done"
            /\ result' =
                 IF r.raised # <<>>
                 THEN [status |-> "error", raised |-> r.raised]
                 ELSE [status |-> "ok", raised |-> <<>>,
                       value |-> IF this_call.op = "get_vm_status"
                                 THEN <<ParseStatus(out.stdout)>>
                                 ELSE <<>>]
    /\ downloads' = NoDownloads
    /\ config' = cfg
    /\ UNCHANGED file

\* The operation as a call of its own, by a creator that holds cfg.
VmOperationWith(cfg, this_call, argv, outcomes) ==
    /\ pc = "idle"
    /\ calls < MaxCalls
    /\ calls' = calls + 1
    /\ VmOperationRun(cfg, this_call, argv, outcomes)

\* The operation of a creator that holds the current configuration.
VmOperation(this_call, argv, outcomes) ==
    VmOperationWith(config, this_call, argv, outcomes)

StartVm(vm_id) ==
    /\ pc = "idle"
    /\ VmOperation([op |-> "start_vm", vm_id |-> vm_id], StartArgv(vm_id),
                   ProcOutcomes)

\* stop_vm(vm_id) when force is <<>>, stop_vm(vm_id, force[1]) otherwise.
StopVm(vm_id, force) ==
    /\ pc = "idle"
    /\ LET f == IF force = <<>> THEN DefaultForce ELSE force[1]
       IN VmOperation([op |-> "stop_vm", vm_id |-> vm_id, force |-> f,
                       given |-> force],
                      StopArgv(vm_id, f), ProcOutcomes)

GetVmStatus(vm_id) ==
    /\ pc = "idle"
    /\ VmOperation([op |-> "get_vm_status", vm_id |-> vm_id], StatusArgv(vm_id),
                   StatusOutcomes)

\* delete_vm(vm_id) when purge is <<>>, delete_vm(vm_id, purge[1]) otherwise.
DeleteVm(vm_id, purge) ==
    /\ pc = "idle"
    /\ LET p == IF purge = <<>> THEN DefaultPurge ELSE purge[1]
       IN VmOperation([op |-> "delete_vm", vm_id |-> vm_id, purge |-> p,
                       given |-> purge],
                      DestroyArgv(vm_id, p), ProcOutcomes)

InitVmOps ==
    /\ config = ProxmoxConfig(<<>>, DefaultMaxRetries)
    /\ file = [r \in Releases |-> "absent"]
    /\ hv = {PyStr(IntId(100)), PyStr(IntId(101))}
    /\ pc = "idle"
    /\ call = NoCall
    /\ cmds = <<>>
    /\ downloads = NoDownloads
    /\ result = NoResult
    /\ calls = 0

NextVmOps ==
    \/ \E vm_id \in VmIds : StartVm(vm_id)
    \/ \E vm_id \in VmIds, force \in {<<>>, <<TRUE>>, <<FALSE>>} : StopVm(vm_id, force)
    \/ \E vm_id \in VmIds : GetVmStatus(vm_id)
    \/ \E vm_id \in VmIds, purge \in {<<>>, <<TRUE>>, <<FALSE>>} : DeleteVm(vm_id, purge)
    \/ Return

SpecVmOps == InitVmOps /\ [][NextVmOps]_vars

----------------------------------------------------------------------------
(* config.py: the construction of a ProxmoxConfig *)

\* What the caller, the environment and the settings file give for a field:
\* <<>> when none gives it, <<v>> for the value that takes precedence.
NothingGiven ==
    [data_store |-> <<>>, vm_bridge |-> <<>>, ssh_key_path |-> <<>>,
     template_memory_mb |-> <<>>, template_disk_increase_gb |-> <<>>,
     ubuntu_image_base_url |-> <<>>, download_timeout_seconds |-> <<>>,
     max_retries |-> <<>>]

\* A path given for the SSH key, with what the file system has there.
KeyPath(kind) == [path |-> SshKeyFile, kind |-> kind]

\* validate_not_empty: the error it raises for a given string, if any.
EmptyError(v) ==
    IF v = <<>> \/ Strip(v) = <<>> THEN {"Value cannot be empty"} ELSE {}

\* expand_ssh_key_path: the error it raises for a given path, if any.
SshKeyError(v) ==
    IF v.kind = "missing" THEN {"SSH key file not found"}
    ELSE IF v.kind # "file" THEN {"SSH key path is not a file"}
    ELSE {}

\* Field(ge=low, le=high): the error for a given integer, if any.
RangeError(v, low, high) ==
    IF v < low THEN {"greater_than_equal"}
    ELSE IF v > high THEN {"less_than_equal"}
    ELSE {}

\* The errors of a field: none when it is not given, for the default is not
\* validated.
FieldErrors(given, field) ==
    IF given[field] = <<>> THEN {}
    ELSE LET v == given[field][1]
         IN CASE field \in {"data_store", "vm_bridge"} -> EmptyError(v)
              [] field = "ssh_key_path" -> SshKeyError(v)
              [] field = "template_memory_mb" -> RangeError(v, 512, 65536)
              [] field = "template_disk_increase_gb" -> RangeError(v, 0, 1000)
              [] field = "download_timeout_seconds" -> RangeError(v, 30, 3600)
              [] field = "max_retries" -> RangeError(v, 1, 10)
              [] OTHER -> {}

\* The fields that fail validation; pydantic reports them all in one error.
InvalidFields(given) ==
    {field \in DOMAIN given : FieldErrors(given, field) # {}}

\* The value of a field of the constructed object.
FieldValue(given, field, default) ==
    IF given[field] = <<>> THEN default ELSE given[field][1]

\* The object the constructor builds when no field fails.
ConfigValue(given) ==
    [data_store |->
         IF given.data_store = <<>> THEN DefaultDataStore
         ELSE Strip(given.data_store[1]),
     vm_bridge |->
         IF given.vm_bridge = <<>> THEN DefaultVmBridge
         ELSE Strip(given.vm_bridge[1]),
     ssh_key_path |->
         IF given.ssh_key_path = <<>> THEN <<>>
         ELSE <<given.ssh_key_path[1].path>>,
     template_memory_mb |->
         FieldValue(given, "template_memory_mb", DefaultTemplateMemoryMb),
     template_disk_increase_gb |->
         FieldValue(given, "template_disk_increase_gb",
                    DefaultTemplateDiskIncreaseGb),
     ubuntu_image_base_url |->
         FieldValue(given, "ubuntu_image_base_url", DefaultImageBaseUrl),
     download_timeout_seconds |->
         FieldValue(given, "download_timeout_seconds",
                    DefaultDownloadTimeoutSeconds),
     max_retries |-> FieldValue(given, "max_retries", DefaultMaxRetries)]

\* A constructor that lowers max_retries to 10 instead of rejecting it.
ProxmoxConfigNew_clamp(given) ==
    LET g == IF given.max_retries # <<>> /\ given.max_retries[1] > 10
             THEN [given EXCEPT !.max_retries = <<10>>]
             ELSE given
    IN IF InvalidFields(g) # {}
       THEN [raised |-> <<[kind |-> "pydantic.ValidationError",
                           msg |-> <<"validation errors for ProxmoxConfig">>,
                           cause |-> <<>>,
                           fields |-> InvalidFields(g)]>>,
             value |-> <<>>]
       ELSE [raised |-> <<>>, value |-> <<ConfigValue(g)>>]

\* ProxmoxConfig(**given): the pydantic ValidationError it raises, or the
\* object it returns.
ProxmoxConfigNew(given) ==
    IF InvalidFields(given) # {}
    THEN [raised |-> <<[kind |-> "pydantic.ValidationError",
                        msg |-> <<"validation errors for ProxmoxConfig">>,
                        cause |-> <<>>,
                        fields |-> InvalidFields(given)]>>,
          value |-> <<>>]
    ELSE [raised |-> <<>>, value |-> <<ConfigValue(given)>>]

\* The values given for each field: none, and values at and around the
\* limits of the field.
GivenValues ==
    [data_store |-> {<<>>, <<<<>>>>, <<<<" ">>>>,
                     <<<<" ", "z", "f", "s", " ">>>>},
     vm_bridge |-> {<<>>, <<<<>>>>, <<<<" ">>>>,
                    <<<<" ", "z", "f", "s", " ">>>>},
     ssh_key_path |-> {<<>>, <<KeyPath("file")>>, <<KeyPath("dir")>>,
                       <<KeyPath("missing")>>},
     template_memory_mb |-> {<<>>, <<511>>, <<512>>, <<65536>>, <<65537>>},
     template_disk_increase_gb |-> {<<>>, <<-1>>, <<0>>, <<1000>>, <<1001>>},
     ubuntu_image_base_url |-> {<<>>, <<<<>>>>},
     download_timeout_seconds |-> {<<>>, <<29>>, <<30>>, <<3600>>, <<3601>>},
     max_retries |-> {<<>>, <<0>>, <<1>>, <<10>>, <<11>>}]

\* The constructions of the model: at most two fields given, every field
\* given with a valid value, and every field given with an invalid one.
GivenConfigs ==
    UNION {UNION {{[NothingGiven EXCEPT ![f1] = v1, ![f2] = v2] :
                      v1 \in GivenValues[f1], v2 \in GivenValues[f2]} :
                  f2 \in DOMAIN GivenValues} :
           f1 \in DOMAIN GivenValues}
        \cup {[data_store |-> <<<<" ", "z", "f", "s", " ">>>>,
               vm_bridge |-> <<<<" ", "z", "f", "s", " ">>>>,
               ssh_key_path |-> <<KeyPath("file")>>,
               template_memory_mb |-> <<512>>,
               template_disk_increase_gb |-> <<0>>,
               ubuntu_image_base_url |-> <<<<>>>>,
               download_timeout_seconds |-> <<3600>>,
               max_retries |-> <<10>>],
              [data_store |-> <<<<>>>>,
               vm_bridge |-> <<<<" ">>>>,
               ssh_key_path |-> <<KeyPath("missing")>>,
               template_memory_mb |-> <<511>>,
               template_disk_increase_gb |-> <<1001>>,
               ubuntu_image_base_url |-> <<<<>>>>,
               download_timeout_seconds |-> <<29>>,
               max_retries |-> <<11>>]}

\* ProxmoxConfig(**given)
ConstructConfig(given) ==
    /\ pc = "idle"
    /\ calls < MaxCalls
    /\ calls' = calls + 1
    /\ call' = [op |-> "ProxmoxConfig", given |-> given]
    /\ LET r == ProxmoxConfigNew(given)
       IN /\ pc' = IF r.raised # <<>> THEN "failed" ELSE "done"
          /\ result' = [status |-> IF r.raised # <<>> THEN "error" ELSE "ok",
                        raised |-> r.raised,
                        value |-> r.value]
    /\ cmds' = <<>>
    /\ downloads' = NoDownloads
    /\ UNCHANGED <<config, file, hv>>

InitConfig ==
    /\ config = ProxmoxConfig(<<>>, DefaultMaxRetries)
    /\ file = [r \in Releases |-> "absent"]
    /\ hv = {}
    /\ pc = "idle"
    /\ call = NoCall
    /\ cmds = <<>>
    /\ downloads = NoDownloads
    /\ result = NoResult
    /\ calls = 0

NextConfig ==
    \/ \E given \in GivenConfigs : ConstructConfig(given)
    \/ Return

SpecConfig == InitConfig /\ [][NextConfig]_vars

----------------------------------------------------------------------------
(* cli.py: the commands *)

\* exceptions.py: ProxmoxUtilityError and its subclasses.
ProxmoxUtilityErrors ==
    {"ProxmoxUtilityError", "ValidationError", "TemplateCreationError",
     "VMCreationError", "NetworkError", "ProxmoxCommandError"}

\* console.print(..., **keywords) of the rich Console: its print() has no
\* parameter `err` and takes no other keywords, so the call with err=True
\* raises TypeError before anything is printed.
ConsolePrint(keywords) ==
    IF "err" \in keywords
    THEN <<Error("TypeError",
                 <<"Console.print() got an unexpected keyword argument 'err'">>,
                 <<>>)>>
    ELSE <<>>

\* The commands whose try statement has an `except Exception` clause.
CatchAllCommands == {"create-template", "create-vm"}

\* The except clauses of a command for what its try body raised: the code
\* given to sys.exit, if it is reached, and the exception that leaves the
\* command function, if any.
CommandExcept(command, raised) ==
    IF raised = <<>> THEN [exit |-> <<>>, uncaught |-> <<>>]
    ELSE IF raised[1].kind \in ProxmoxUtilityErrors
    THEN LET p == ConsolePrint({"err"})
         IN IF p # <<>> THEN [exit |-> <<>>, uncaught |-> p]
            ELSE [exit |-> <<1>>, uncaught |-> <<>>]
    ELSE IF command \in CatchAllCommands
    THEN LET p == ConsolePrint({"err"})
         IN IF p # <<>> THEN [exit |-> <<>>, uncaught |-> p]
            ELSE [exit |-> <<2>>, uncaught |-> <<>>]
    ELSE [exit |-> <<>>, uncaught |-> raised]

\* The exit status of the process: the code given to sys.exit; 1 when an
\* exception leaves main() (click ends an Abort with status 1, the
\* interpreter ends any other exception with a traceback and status 1); 0
\* when the command function returns.
ExitStatus(h) ==
    IF h.exit # <<>> THEN h.exit[1]
    ELSE IF h.uncaught # <<>> THEN 1
    ELSE 0

\* `if value:` for an option: it was given and is not the empty string.
Truthy(option) == option # <<>> /\ option[1] # <<>>

\* The fields ProxmoxConfig(**kwargs) is given: a keyword argument takes
\* precedence over the PROXMOX_ variable of the environment.
Settings(kwargs, env) ==
    [field \in DOMAIN NothingGiven |->
        IF kwargs[field] # <<>> THEN kwargs[field] ELSE env[field]]

\* The command lines of the model.  env: no PROXMOX_ variable set,
\* PROXMOX_TEMPLATE_MEMORY_MB below the least value of the field, and valid
\* values other than the defaults for the memory and the disk increase; the ids
\* are parsed with type=int; an option is left out, or given with a string,
\* which may be empty; answer: what the prompt of delete reads.
CliInputs ==
    [env |-> {NothingGiven,
              [NothingGiven EXCEPT !.template_memory_mb = <<511>>],
              [NothingGiven EXCEPT !.template_memory_mb = <<1024>>,
                                   !.template_disk_increase_gb = <<10>>]},
     template_id |-> {IntId(50), IntId(100)},
     template_name |-> {<<>>, <<<<"t", ";", "1">>>>},
     memory |-> {<<>>, <<4096>>},
     disk_increase |-> {<<>>, <<0>>},
     vm_id |-> {IntId(100), IntId(101)},
     vm_name |-> {<<"v", "m">>, <<";">>},
     data_store |-> {<<>>, <<<<>>>>, <<<<" ">>>>, <<<<"z", "f", "s">>>>},
     ssh_key |-> {<<>>, <<KeyPath("file")>>, <<KeyPath("dir")>>},
     answer |-> {"y", "n", "abort"}]

\* The command whose function is running.
Command ==
    CASE call.op = "cli" -> call.command
      [] call.op = "create_template" -> "create-template"
      [] call.op = "create_vm" -> "create-vm"
      [] call.op = "start_vm" -> "start"
      [] call.op = "stop_vm" -> "stop"
      [] call.op = "get_vm_status" -> "status"
      [] call.op = "delete_vm" -> "delete"
      [] OTHER -> "none"

\* The try body of a command ends with the exception `raised` before it has
\* called an operation of the library.
CliRaise(this_call, raised) ==
    /\ call' = this_call
    /\ pc' = "failed"
    /\ result' = [status |-> "error", raised |-> raised]
    /\ cmds' = <<>>
    /\ downloads' = NoDownloads
    /\ UNCHANGED <<config, file, hv>>

\* A command that ends so as a call of its own.
CliFail(command, raised) ==
    /\ pc = "idle"
    /\ calls < MaxCalls
    /\ calls' = calls + 1
    /\ CliRaise([op |-> "cli", command |-> command], raised)

\* proxbox create-template RELEASE TEMPLATE_ID [--name] [--memory]
\* [--disk-increase] [--ssh-key] [--data-store] [--keep-image]
CliCreateTemplate(env, release, template_id, template_name, memory, disk_increase, ssh_key, data_store, keep_image) ==
    /\ pc = "idle"
    /\ LET config_kwargs ==
               [NothingGiven EXCEPT
                   !.ssh_key_path = IF ssh_key # <<>> THEN ssh_key ELSE <<>>,
                   !.data_store = IF Truthy(data_store) THEN data_store
                                  ELSE <<>>]
           c == ProxmoxConfigNew(Settings(config_kwargs, env))
       IN IF c.raised # <<>>
          THEN CliFail("create-template", c.raised)
          ELSE CreateTemplateWith(c.value[1], release, template_id,
                                  template_name, memory, disk_increase,
                                  keep_image)

\* proxbox create-vm TEMPLATE_ID VM_ID VM_NAME [--start] [--no-network]
\* [--data-store]
CliCreateVm(env, template_id, vm_id, vm_name, start, no_network, data_store) ==
    /\ pc = "idle"
    /\ LET config_kwargs ==
               [NothingGiven EXCEPT
                   !.data_store = IF Truthy(data_store) THEN data_store
                                  ELSE <<>>]
           c == ProxmoxConfigNew(Settings(config_kwargs, env))
       IN IF c.raised # <<>>
          THEN CliFail("create-vm", c.raised)
          ELSE CreateVmWith(c.value[1], template_id, vm_id, vm_name, start,
                            ~no_network)

\* proxbox start VM_ID
CliStart(env, vm_id) ==
    /\ pc = "idle"
    /\ LET c == ProxmoxConfigNew(Settings(NothingGiven, env))
       IN IF c.raised # <<>>
          THEN CliFail("start", c.raised)
          ELSE VmOperationWith(c.value[1],
                               [op |-> "start_vm", vm_id |-> vm_id],
                               StartArgv(vm_id), ProcOutcomes)

\* proxbox stop VM_ID [--force]
CliStop(env, vm_id, force) ==
    /\ pc = "idle"
    /\ LET c == ProxmoxConfigNew(Settings(NothingGiven, env))
       IN IF c.raised # <<>>
          THEN CliFail("stop", c.raised)
          ELSE VmOperationWith(c.value[1],
                               [op |-> "stop_vm", vm_id |-> vm_id,
                                force |-> force, given |-> <<force>>],
                               StopArgv(vm_id, force), ProcOutcomes)

\* proxbox status VM_ID
CliStatus(env, vm_id) ==
    /\ pc = "idle"
    /\ LET c == ProxmoxConfigNew(Settings(NothingGiven, env))
       IN IF c.raised # <<>>
          THEN CliFail("status", c.raised)
          ELSE VmOperationWith(c.value[1],
                               [op |-> "get_vm_status", vm_id |-> vm_id],
                               StatusArgv(vm_id), StatusOutcomes)

\* The command line of a delete command and the answer to its prompt.
DeleteLine(env, vm_id, no_purge, yes, answer) ==
    [env |-> env, vm_id |-> vm_id, no_purge |-> no_purge, yes |-> yes,
     answer |-> answer]

\* delete after the confirmation: VMCreator() and delete_vm.
CliDestroy(line) ==
    LET c == ProxmoxConfigNew(Settings(NothingGiven, line.env))
    IN IF c.raised # <<>>
       THEN CliRaise([op |-> "cli", command |-> "delete", line |-> line],
                     c.raised)
       ELSE VmOperationRun(c.value[1],
                           [op |-> "delete_vm", vm_id |-> line.vm_id,
                            purge |-> ~line.no_purge,
                            given |-> <<~line.no_purge>>, line |-> line],
                           DestroyArgv(line.vm_id, ~line.no_purge),
                           ProcOutcomes)

\* A delete command that never asks.
CliDelete_no_prompt(env, vm_id, no_purge, yes) ==
    /\ pc = "idle"
    /\ calls < MaxCalls
    /\ calls' = calls + 1
    /\ CliDestroy(DeleteLine(env, vm_id, no_purge, yes, <<>>))

\* proxbox delete VM_ID [--no-purge] [--yes], up to the prompt when --yes
\* is not given.
CliDelete(env, vm_id, no_purge, yes) ==
    /\ pc = "idle"
    /\ calls < MaxCalls
    /\ calls' = calls + 1
    /\ IF yes
       THEN CliDestroy(DeleteLine(env, vm_id, no_purge, yes, <<>>))
       ELSE /\ pc' = "cli_confirm"
            /\ call' = [op |-> "cli", command |-> "delete",
                        line |-> DeleteLine(env, vm_id, no_purge, yes, <<>>)]
            /\ cmds' = <<>>
            /\ downloads' = NoDownloads
            /\ result' = NoResult
            /\ UNCHANGED <<config, file, hv>>

\* click.confirm("Are you sure?"): the answer y, another answer, or the end
\* of the input, for which click raises Abort.
CliConfirm(answer) ==
    /\ pc = "cli_confirm"
    /\ LET line == [call.line EXCEPT !.answer = <<answer>>]
       IN CASE answer = "y" -> CliDestroy(line)
            [] answer = "n" ->
                 /\ pc' = "done"
                 /\ call' = [call EXCEPT !.line = line]
                 /\ result' = [status |-> "ok", raised |-> <<>>]
                 /\ UNCHANGED <<config, file, hv, cmds, downloads>>
            [] OTHER ->
                 CliRaise([call EXCEPT !.line = line],
                          <<Error("click.Abort", <<>>, <<>>)>>)
    /\ UNCHANGED calls

\* The end of the process: the except clauses of the command, and the exit
\* status.
CliExit ==
    /\ pc \in {"done", "failed"}
    /\ pc' = "exited"
    /\ LET h == CommandExcept(Command, result.raised)
       IN result' = [status |-> "exited",
                     code |-> ExitStatus(h),
                     raised |-> result.raised,
                     uncaught |-> h.uncaught]
    /\ UNCHANGED <<config, file, hv, call, cmds, downloads, calls>>

\* The next command line is typed.
CliReturn ==
    /\ pc = "exited"
    /\ pc' = "idle"
    /\ call' = NoCall
    /\ cmds' = <<>>
    /\ downloads' = NoDownloads
    /\ result' = NoResult
    /\ UNCHANGED <<config, file, hv, calls>>

InitCli ==
    /\ config = ProxmoxConfig(<<>>, DefaultMaxRetries)
    /\ file = [r \in Releases |-> "absent"]
    /\ hv = {PyStr(IntId(100))}
    /\ pc = "idle"
    /\ call = NoCall
    /\ cmds = <<>>
    /\ downloads = NoDownloads
    /\ result = NoResult
    /\ calls = 0

NextCli ==
    \/ \E env \in CliInputs.env, template_id \in CliInputs.template_id,
          template_name \in CliInputs.template_name,
          memory \in CliInputs.memory,
          disk_increase \in CliInputs.disk_increase,
          ssh_key \in CliInputs.ssh_key, data_store \in CliInputs.data_store,
          keep_image \in BOOLEAN :
         CliCreateTemplate(env, "noble", template_id, template_name, memory,
                           disk_increase, ssh_key, data_store, keep_image)
    \/ TDownloadImage
    \/ TDownloadAttempt
    \/ TCreateVm
    \/ TImportDisk
    \/ TConfigureScsi
    \/ TConfigureBoot
    \/ TResizeDisk
    \/ TCloudInitNetwork
    \/ TCloudInitSshKey
    \/ TCloudInitDump
    \/ TConvertToTemplate
    \/ TCleanupImage
    \/ \E env \in CliInputs.env, template_id \in CliInputs.vm_id, vm_id \in CliInputs.vm_id,
          vm_name \in CliInputs.vm_name, start \in BOOLEAN, no_network \in BOOLEAN,
          data_store \in CliInputs.data_store :
         CliCreateVm(env, template_id, vm_id, vm_name, start, no_network,
                     data_store)
    \/ VCloneVm
    \/ VConfigureVm
    \/ VSetCloudInitNetwork
    \/ VStartVm
    \/ \E env \in CliInputs.env, vm_id \in CliInputs.vm_id : CliStart(env, vm_id)
    \/ \E env \in CliInputs.env, vm_id \in CliInputs.vm_id, force \in BOOLEAN :
         CliStop(env, vm_id, force)
    \/ \E env \in CliInputs.env, vm_id \in CliInputs.vm_id : CliStatus(env, vm_id)
    \/ \E env \in CliInputs.env, vm_id \in CliInputs.vm_id, no_purge \in BOOLEAN,
          yes \in BOOLEAN :
         CliDelete(env, vm_id, no_purge, yes)
    \/ \E answer \in CliInputs.answer : CliConfirm(answer)
    \/ CliExit
    \/ CliReturn

SpecCli == InitCli /\ [][NextCli]_vars

----------------------------------------------------------------------------
(* template.py: two create_template calls running concurrently *)

\* In this specification pc, call, cmds, downloads and result hold one value
\* for each process, and file[release] is the directory entry of the image
\* path with the content of the file it names: a sequence of chunks, "d" for
\* a chunk of the image and "0" for a hole left by a write past the end.

\* The number of chunks iter_content yields for the image.
ImageChunks == 2

Procs == {1, 2}

\* The ids of the concurrent calls: valid and different.
ProcTemplateId(p) == IntId(99 + p)

CompleteImage == [i \in 1..ImageChunks |-> "d"]
NoFile == [exists |-> FALSE, data |-> <<>>]

\* destination.open("wb"): the file is created, or truncated in place.
OpenWb(f) == [exists |-> TRUE, data |-> <<>>]

\* f.write(chunk) at the offset of the writer's descriptor.
WriteChunk(f, offset) ==
    [f EXCEPT !.data =
        [i \in 1..(IF Len(f.data) > offset THEN Len(f.data) ELSE offset + 1)
            |-> IF i = offset + 1 THEN "d"
                ELSE IF i <= Len(f.data) THEN f.data[i]
                ELSE "0"]]

\* fd: "closed", "linked" while the descriptor's file is the one the path
\* names, "orphan" once that file was unlinked; offset: the chunks written
\* through the descriptor; imported: what the path named when the call's
\* importdisk command read it.
NoProcDownloads ==
    [found |-> <<>>, called |-> FALSE, attempts |-> 0, raised |-> <<>>,
     fd |-> "closed", offset |-> 0, imported |-> <<>>]

\* The run_command call of a step of the call c, or none when the step
\* issues nothing.
StepCommand(c, step) ==
    CASE step = "t_create" ->
           <<[argv |-> CreateArgv(c.template_id, c.template_name,
                                  c.memory_mb),
              check |-> TRUE, timeout |-> DefaultCommandTimeout]>>
      [] step = "t_import" ->
           <<[argv |-> ImportDiskArgv(c.template_id,
                                      _get_image_path(c.release)),
              check |-> TRUE, timeout |-> ImportTimeout]>>
      [] step = "t_scsi" ->
           <<[argv |-> ScsiArgv(c.template_id),
              check |-> TRUE, timeout |-> DefaultCommandTimeout]>>
      [] step = "t_boot" ->
           <<[argv |-> BootArgv(c.template_id),
              check |-> TRUE, timeout |-> DefaultCommandTimeout]>>
      [] step = "t_resize" ->
           IF c.disk_increase_gb <= 0 THEN <<>>
           ELSE <<[argv |-> ResizeArgv(c.template_id, c.disk_increase_gb),
                   check |-> TRUE, timeout |-> DefaultCommandTimeout]>>
      [] step = "t_ipconfig" ->
           <<[argv |-> IpconfigArgv(c.template_id),
              check |-> TRUE, timeout |-> DefaultCommandTimeout]>>
      [] step = "t_sshkey" ->
           IF config.ssh_key_path = <<>> THEN <<>>
           ELSE <<[argv |-> SshkeyArgv(c.template_id),
                   check |-> TRUE, timeout |-> DefaultCommandTimeout]>>
      [] step = "t_dump" ->
           <<[argv |-> CloudinitDumpArgv(c.template_id),
              check |-> FALSE, timeout |-> DefaultCommandTimeout]>>
      [] OTHER ->
           <<[argv |-> TemplateArgv(c.template_id),
              check |-> TRUE, timeout |-> DefaultCommandTimeout]>>

\* The except clause of create_template, in process p.
PFail(p, e, log) ==
    LET h == create_template_except(call[p].template_id, e, log)
    IN /\ pc' = [pc EXCEPT ![p] = "failed"]
       /\ result' = [result EXCEPT
                        ![p] = [status |-> "error", raised |-> h.raised]]
       /\ cmds' = [cmds EXCEPT ![p] = h.cmds]

\* The retry decorator's decision on the exception e of the running attempt.
PRetry(p, e) ==
    LET d == download_retry(downloads[p].attempts, <<e>>)
    IN IF d.do = "retry"
       THEN /\ pc' = [pc EXCEPT ![p] = "t_get"]
            /\ UNCHANGED <<result, cmds>>
       ELSE PFail(p, d.raised[1], cmds[p])

\* Process p calls create_template with the defaults of the configuration;
\* the calls of the model are all for the same release.
PCreateTemplate(p, release, keep_image) ==
    /\ pc[p] = "idle"
    /\ call' = [call EXCEPT ![p] =
                   [op |-> "create_template",
                    release |-> release,
                    template_id |-> ProcTemplateId(p),
                    template_name |-> DefaultTemplateName(release),
                    memory_mb |-> config.template_memory_mb,
                    disk_increase_gb |-> config.template_disk_increase_gb,
                    keep_image |-> keep_image]]
    /\ LET v == validate_vm_id(ProcTemplateId(p), 100, DefaultMaxId)
       IN IF v # <<>>
          THEN LET h == create_template_except(ProcTemplateId(p), v[1], <<>>)
               IN /\ pc' = [pc EXCEPT ![p] = "failed"]
                  /\ result' = [result EXCEPT
                                   ![p] = [status |-> "error",
                                           raised |-> h.raised]]
          ELSE /\ pc' = [pc EXCEPT ![p] = TemplateSteps[1]]
               /\ UNCHANGED result
    /\ UNCHANGED <<config, file, hv, cmds, downloads, calls>>

\* _download_image in process p: the exists check.
PDownloadImage(p) ==
    /\ pc[p] = "t_download"
    /\ IF file[call[p].release].exists
       THEN /\ pc' = [pc EXCEPT ![p] = After(TemplateSteps, "t_download")]
            /\ downloads' = [downloads EXCEPT ![p].found = <<"found">>]
       ELSE /\ pc' = [pc EXCEPT ![p] = "t_get"]
            /\ downloads' = [downloads EXCEPT ![p].found = <<"absent">>,
                                              ![p].called = TRUE]
    /\ UNCHANGED <<config, file, hv, call, cmds, result, calls>>

\* An attempt of download_file begins: requests.get and raise_for_status.
PGet(p) ==
    /\ pc[p] = "t_get"
    /\ \E out \in {"ok", "net_early"} :
         LET e == download_attempt_error(_get_image_url(call[p].release), out)
         IN /\ downloads' = [downloads EXCEPT
                                ![p].attempts = @ + 1,
                                ![p].raised = IF e = <<>> THEN @
                                              ELSE Append(@, e[1].kind)]
            /\ IF e = <<>>
               THEN /\ pc' = [pc EXCEPT ![p] = "t_open"]
                    /\ UNCHANGED <<result, cmds>>
               ELSE LET d == download_retry(downloads[p].attempts + 1, e)
                    IN IF d.do = "retry"
                       THEN UNCHANGED <<pc, result, cmds>>
                       ELSE PFail(p, d.raised[1], cmds[p])
    /\ UNCHANGED <<config, file, hv, call, calls>>

\* destination.open("wb")
POpen(p) ==
    /\ pc[p] = "t_open"
    /\ \E out \in {"ok", "os_open"} :
         LET e == download_attempt_error(_get_image_url(call[p].release), out)
         IN IF e = <<>>
            THEN /\ file' = [file EXCEPT ![call[p].release] = OpenWb(@)]
                 /\ downloads' = [downloads EXCEPT ![p].fd = "linked",
                                                   ![p].offset = 0]
                 /\ pc' = [pc EXCEPT ![p] = "t_write"]
                 /\ UNCHANGED <<result, cmds>>
            ELSE /\ downloads' = [downloads EXCEPT
                                     ![p].raised = Append(@, e[1].kind)]
                 /\ PRetry(p, e[1])
                 /\ UNCHANGED file
    /\ UNCHANGED <<config, hv, call, calls>>

\* One turn of the loop over response.iter_content: a chunk is written, the
\* transfer breaks, the write fails, or the body has ended.
PWrite(p) ==
    /\ pc[p] = "t_write"
    /\ IF downloads[p].offset >= ImageChunks
       THEN /\ pc' = [pc EXCEPT ![p] = "t_close"]
            /\ downloads' = [downloads EXCEPT ![p].fd = "closed"]
            /\ UNCHANGED <<file, result, cmds>>
       ELSE \E out \in {"ok", "net_mid", "os_write"} :
              LET e == download_attempt_error(
                           _get_image_url(call[p].release), out)
              IN IF e = <<>>
                 THEN /\ file' = IF downloads[p].fd = "linked"
                                 THEN [file EXCEPT ![call[p].release] =
                                          WriteChunk(@, downloads[p].offset)]
                                 ELSE file
                      /\ downloads' = [downloads EXCEPT ![p].offset = @ + 1]
                      /\ UNCHANGED <<pc, result, cmds>>
                 ELSE /\ downloads' = [downloads EXCEPT
                                          ![p].fd = "closed",
                                          ![p].raised = Append(@, e[1].kind)]
                      /\ PRetry(p, e[1])
                      /\ UNCHANGED file
    /\ UNCHANGED <<config, hv, call, calls>>

\* The report after the transfer: destination.stat() raises
\* FileNotFoundError when the path names no file.
PClose(p) ==
    /\ pc[p] = "t_close"
    /\ IF file[call[p].release].exists
       THEN /\ pc' = [pc EXCEPT ![p] = After(TemplateSteps, "t_download")]
            /\ downloads' = [downloads EXCEPT ![p].raised = Append(@, "")]
            /\ UNCHANGED <<result, cmds>>
       ELSE /\ downloads' = [downloads EXCEPT
                                ![p].raised = Append(@, "FileNotFoundError")]
            /\ PRetry(p, Error("FileNotFoundError", <<>>, <<>>))
    /\ UNCHANGED <<config, file, hv, call, calls>>

\* One step of process p that is a run_command call, or is skipped.
\* importdisk cannot succeed when the image path names no file.
PRun(p) ==
    /\ pc[p] \in {"t_create", "t_import", "t_scsi", "t_boot", "t_resize",
                 "t_ipconfig", "t_sshkey", "t_dump", "t_template"}
    /\ LET step == pc[p]
           c == StepCommand(call[p], step)
       IN IF c = <<>>
          THEN /\ pc' = [pc EXCEPT ![p] = After(TemplateSteps, step)]
               /\ UNCHANGED <<hv, cmds, result, downloads>>
          ELSE \E out \in IF step = "t_import"
                               /\ ~file[call[p].release].exists
                            THEN ProcOutcomes \ {Exited(0)}
                            ELSE ProcOutcomes :
                 LET r == run_command(c[1].argv, c[1].check, c[1].timeout,
                                      out)
                     log == Append(cmds[p],
                                   Issued(c[1].argv, c[1].check,
                                          c[1].timeout, out))
                 IN /\ hv' = HvAfter(hv, c[1].argv, out)
                    /\ downloads' =
                         IF step = "t_import"
                         THEN [downloads EXCEPT ![p].imported =
                                 <<IF file[call[p].release].exists
                                   THEN file[call[p].release].data
                                   ELSE <<"missing">>>>]
                         ELSE downloads
                    /\ IF r.raised # <<>>
                       THEN PFail(p, r.raised[1], log)
                       ELSE /\ pc' = [pc EXCEPT
                                         ![p] = After(TemplateSteps, step)]
                            /\ cmds' = [cmds EXCEPT ![p] = log]
                            /\ UNCHANGED result
    /\ UNCHANGED <<config, file, call, calls>>

\* _cleanup_image in process p, and the return of create_template: unlink()
\* removes the directory entry, under every descriptor that is open on the
\* file; its OSError, raised also when the path names no file, is caught.
PCleanupImage(p) ==
    /\ pc[p] = "t_cleanup"
    /\ IF call[p].keep_image
       THEN /\ result' = [result EXCEPT
                             ![p] = [status |-> "ok", raised |-> <<>>,
                                     unlink |-> "skipped"]]
            /\ UNCHANGED <<file, downloads>>
       ELSE \E unlinked \in {file[call[p].release].exists, FALSE} :
              /\ file' = IF unlinked
                         THEN [file EXCEPT ![call[p].release] = NoFile]
                         ELSE file
              /\ downloads' =
                   IF unlinked
                   THEN [q \in Procs |->
                           IF downloads[q].fd = "linked"
                              /\ call[q].release = call[p].release
                           THEN [downloads[q] EXCEPT !.fd = "orphan"]
                           ELSE downloads[q]]
                   ELSE downloads
              /\ result' = [result EXCEPT
                               ![p] = [status |-> "ok", raised |-> <<>>,
                                       unlink |-> IF unlinked THEN "ok"
                                                  ELSE "failed"]]
    /\ pc' = [pc EXCEPT ![p] = After(TemplateSteps, "t_cleanup")]
    /\ UNCHANGED <<config, hv, call, cmds, calls>>

InitConcurrent ==
    /\ config = ProxmoxConfig(<<>>, DefaultMaxRetries)
    /\ file = [r \in Releases |-> NoFile]
    /\ hv = {}
    /\ pc = [p \in Procs |-> "idle"]
    /\ call = [p \in Procs |-> NoCall]
    /\ cmds = [p \in Procs |-> <<>>]
    /\ downloads = [p \in Procs |-> NoProcDownloads]
    /\ result = [p \in Procs |-> NoResult]
    /\ calls = 0

NextConcurrent ==
    \E p \in Procs :
        \/ \E keep_image \in BOOLEAN :
             PCreateTemplate(p, "noble", keep_image)
        \/ PDownloadImage(p)
        \/ PGet(p)
        \/ POpen(p)
        \/ PWrite(p)
        \/ PClose(p)
        \/ PRun(p)
        \/ PCleanupImage(p)

SpecConcurrent == InitConcurrent /\ [][NextConcurrent]_vars

----------------------------------------------------------------------------
(* Vocabulary of the properties *)

\* A command failed: it timed out, or it exited non-zero while its exit code
\* was checked.  A command succeeded when it did not fail.
CommandFailed(c) == c.out.timed_out \/ (c.check /\ c.out.returncode # 0)

\* What a command is: its subcommand, and for `qm set` its first option.
CommandKind(argv) ==
    IF argv[2] = <<"set">> THEN "set " \o argv[4][1]
    ELSE IF argv[2] = <<"cloudinit">> THEN "cloudinit dump"
    ELSE argv[2][1]

Kinds(log) == [i \in 1..Len(log) |-> CommandKind(log[i].argv)]

IsPrefix(a, b) == Len(a) <= Len(b) /\ SubSeq(b, 1, Len(a)) = a

Contains(msg, piece) == \E i \in 1..Len(msg) : msg[i] = piece

\* The commands of a complete create_template call, in the stated order.
TemplateWorkflowKinds ==
    <<"create", "importdisk", "set --scsihw", "set --ide2">>
        \o (IF call.disk_increase_gb > 0 THEN <<"resize">> ELSE <<>>)
        \o <<"set --ipconfig0">>
        \o (IF config.ssh_key_path # <<>> THEN <<"set --sshkey">> ELSE <<>>)
        \o <<"cloudinit dump", "template">>

InTemplateCall == call.op = "create_template"
InVmCall == call.op = "create_vm"

\* The download of the running call was given up.
DownloadFailed ==
    /\ downloads.raised # <<>>
    /\ downloads.raised[Len(downloads.raised)] # ""
    /\ pc = "failed"

\* An id the validation rejects: not an integer, or outside [100, 999999999].
InvalidId(id) == id.ty # "int" \/ id.n < 100 \/ id.n > 999999999

----------------------------------------------------------------------------
(* C1 *)

\* C1: in create_template a failing step aborts all remaining steps.  At every
\* point of a call the commands issued so far are an initial part of the
\* ordered workflow, no command follows a failed one, a call whose last
\* command failed or whose download was given up has ended with
\* TemplateCreationError, and after a given-up download no command was issued.
\* In particular after importdisk exits with code 1 the log ends there.
C1_FailingStepAborts ==
    InTemplateCall =>
        /\ IsPrefix(Kinds(cmds), TemplateWorkflowKinds)
        /\ \A i \in 1..Len(cmds) : CommandFailed(cmds[i]) => i = Len(cmds)
        /\ (cmds # <<>> /\ CommandFailed(cmds[Len(cmds)])) =>
               /\ pc = "failed"
               /\ result.raised # <<>>
               /\ result.raised[1].kind = "TemplateCreationError"
        /\ DownloadFailed =>
               /\ cmds = <<>>
               /\ result.raised[1].kind = "TemplateCreationError"
        /\ (downloads.raised # <<>>
              /\ downloads.raised[Len(downloads.raised)] \in {"OSError"}) =>
               pc = "failed"

\* importdisk exited with code 1 after a successful create: the call failed
\* with exactly those two commands issued.
C1_Witness ==
    /\ InTemplateCall
    /\ pc = "failed"
    /\ Kinds(cmds) = <<"create", "importdisk">>
    /\ cmds[2].out = Exited(1)

----------------------------------------------------------------------------
(* C2 *)

\* C2: a create_template call that succeeds has issued exactly the commands of
\* the workflow in the fixed order (resize only for a positive increase,
\* --sshkey only with a configured key), each after the previous one returned
\* without failing; no command is issued before the image is present; and
\* `qm template` is issued only after every earlier command succeeded.
C2_SuccessOrder ==
    InTemplateCall =>
        /\ pc = "done" =>
               /\ Kinds(cmds) = TemplateWorkflowKinds
               /\ \A i \in 1..Len(cmds) : ~CommandFailed(cmds[i])
               /\ result.status = "ok"
        /\ (cmds # <<>> /\ pc # "done") => file[call.release] # "absent"
        /\ cmds = <<>> => pc \in {"t_download", "t_attempt", "t_create",
                                  "failed"}
        /\ \A i \in 1..Len(cmds) :
               CommandKind(cmds[i].argv) = "template" =>
                   /\ i = Len(TemplateWorkflowKinds)
                   /\ \A j \in 1..(i - 1) : ~CommandFailed(cmds[j])
        /\ pc = "t_cleanup" => Kinds(cmds) = TemplateWorkflowKinds

\* A call with a resize and an SSH key command has succeeded.
C2_Witness ==
    /\ InTemplateCall
    /\ pc = "done"
    /\ Len(cmds) = 9
    /\ downloads.called

----------------------------------------------------------------------------
(* C3 *)

----------------------------------------------------------------------------
(* C4 *)

\* C4: fail-forward, no rollback.  When create_template or create_vm has
\* failed, the failing command is the last one the call issued, no command of
\* the call is `qm destroy`, and every VM a successful create or clone of the
\* call made is still on the hypervisor.
C4_NoRollback ==
    pc = "failed" =>
        /\ \A i \in 1..Len(cmds) :
               /\ CommandKind(cmds[i].argv) # "destroy"
               /\ CommandFailed(cmds[i]) => i = Len(cmds)
               /\ (CommandKind(cmds[i].argv) = "create"
                     /\ cmds[i].out = Exited(0)) => cmds[i].argv[3] \in hv
               /\ (CommandKind(cmds[i].argv) = "clone"
                     /\ cmds[i].out = Exited(0)) => cmds[i].argv[4] \in hv
        /\ cmds # <<>> => CommandFailed(cmds[Len(cmds)])

\* A create_vm call failed after its clone succeeded.
C4_Witness ==
    /\ InVmCall
    /\ pc = "failed"
    /\ Len(cmds) >= 2
    /\ cmds[1].out = Exited(0)
    /\ cmds[1].argv[4] \in hv

----------------------------------------------------------------------------
(* C5 *)

\* C5: download idempotence.  When the image file of the requested release
\* exists at the exists check of create_template, download_file is not
\* called during the call, the file is left as found up to and including
\* import-disk, and import-disk is given the path of that file.
C5_DownloadIdempotent ==
    (InTemplateCall /\ downloads.found # <<>> /\ downloads.found[1] # "absent")
        =>
        /\ ~downloads.called
        /\ downloads.attempts = 0
        /\ downloads.raised = <<>>
        /\ pc \notin {"t_attempt", "t_download"}
        /\ (pc \notin {"done"}) => file[call.release] = downloads.found[1]
        /\ \A i \in 1..Len(cmds) :
               CommandKind(cmds[i].argv) = "importdisk" =>
                   cmds[i].argv[4] = _get_image_path(call.release)

\* A call found the image and has issued import-disk without a download.
C5_Witness ==
    /\ InTemplateCall
    /\ downloads.found = <<"complete">>
    /\ Len(cmds) >= 2
    /\ ~downloads.called

----------------------------------------------------------------------------
(* C6 *)

\* The attempts of the running call's download all raised NetworkError.
AllNetworkErrors ==
    /\ downloads.raised # <<>>
    /\ \A i \in 1..Len(downloads.raised) : downloads.raised[i] = "NetworkError"

\* C6: with max_retries >= 3, after two attempts that failed with a network
\* error a third attempt is made, and when it succeeds exactly 3 attempts
\* were made, the image is complete, the commands run as in a first-try
\* success, and the call fails only if one of its commands fails.
C6_TwoFailuresThenSuccess ==
    (InTemplateCall /\ config.max_retries >= 3) =>
        /\ downloads.raised = <<"NetworkError", "NetworkError">> =>
               /\ pc = "t_attempt"
               /\ downloads.attempts = 2
        /\ downloads.raised = <<"NetworkError", "NetworkError", "">> =>
               /\ downloads.attempts = 3
               /\ pc \notin {"t_attempt", "t_download"}
               /\ pc # "done" => file[call.release] = "complete"
               /\ IsPrefix(Kinds(cmds), TemplateWorkflowKinds)
               /\ pc = "failed" =>
                      cmds # <<>> /\ CommandFailed(cmds[Len(cmds)])
               /\ pc = "done" =>
                      /\ Kinds(cmds) = TemplateWorkflowKinds
                      /\ result.status = "ok"

\* A call whose download failed twice and then succeeded has completed.
C6_Witness ==
    /\ InTemplateCall
    /\ config.max_retries >= 3
    /\ downloads.raised = <<"NetworkError", "NetworkError", "">>
    /\ pc = "done"
    /\ result.status = "ok"

----------------------------------------------------------------------------
(* C7 *)

\* C7: the number of download attempts is governed by max_retries: a download
\* is never attempted more than max_retries times, and one that keeps failing
\* with a network error is given up after exactly max_retries attempts.
C7_AttemptsGovernedByMaxRetries ==
    InTemplateCall =>
        /\ downloads.attempts <= config.max_retries
        /\ (pc = "failed" /\ AllNetworkErrors) =>
               downloads.attempts = config.max_retries

----------------------------------------------------------------------------
(* C8 *)

\* C8: when every download attempt fails with a network error, the failure
\* that leaves download_file is a NetworkError "Failed to download ...".
C8_ExhaustedRaisesNetworkError ==
    (InTemplateCall /\ pc = "failed" /\ AllNetworkErrors) =>
        /\ result.raised[1].cause[1].kind = "NetworkError"
        /\ Contains(result.raised[1].cause[1].msg, "Failed to download ")

----------------------------------------------------------------------------
(* C9 *)

\* C9: validation failures never touch the external system.  A
\* create_template call with an invalid template id, and a create_vm call
\* with an invalid template id or VM id, with equal ids, or with a name that
\* fails sanitization, has failed with no command issued and no download
\* attempted.
C9_ValidationTouchesNothing ==
    ((InTemplateCall /\ InvalidId(call.template_id))
       \/ (InVmCall /\ (\/ InvalidId(call.template_id)
                        \/ InvalidId(call.vm_id)
                        \/ call.template_id = call.vm_id
                        \/ sanitize_vm_name(call.vm_name).raised # <<>>)))
        =>
        /\ pc = "failed"
        /\ cmds = <<>>
        /\ ~downloads.called
        /\ downloads.attempts = 0

\* create_vm with a VM id below 100 has failed.
C9_Witness ==
    /\ InVmCall
    /\ pc = "failed"
    /\ call.template_id = IntId(100)
    /\ call.vm_id = IntId(50)

----------------------------------------------------------------------------
(* C10 *)

----------------------------------------------------------------------------
(* C11 *)

\* A name with a character the pattern of sanitize_vm_name removes.
HasInvalidChar(name) ==
    \E i \in 1..Len(name) : name[i] \notin Letters \cup Digits \cup {"-", "_"}

\* C11: a VM name with a character outside [A-Za-z0-9_-] is rejected.
\* create_vm with valid, distinct ids and such a name has failed with a
\* VMCreationError whose message contains "Invalid VM name", and no clone
\* command was issued.
C11_InvalidCharRejected ==
    (/\ InVmCall
     /\ ~InvalidId(call.template_id)
     /\ ~InvalidId(call.vm_id)
     /\ call.template_id # call.vm_id
     /\ HasInvalidChar(call.vm_name))
        =>
        /\ pc = "failed"
        /\ result.raised # <<>>
        /\ result.raised[1].kind = "VMCreationError"
        /\ Contains(result.raised[1].msg, "Invalid VM name: ")
        /\ \A i \in 1..Len(cmds) : CommandKind(cmds[i].argv) # "clone"

----------------------------------------------------------------------------
(* C12 *)

InSanitize == call.op = "sanitize_vm_name"

\* The characters of a name that are in [A-Za-z0-9_-], in their order.
ValidChar(c) == c \in Letters \cup Digits \cup {"-", "_"}
Kept(name) == SelectSeq(name, ValidChar)

\* A name that is empty or made of whitespace only.
Blank(name) == \A i \in 1..Len(name) : name[i] \in {" ", "\t", "\n", "\r"}

----------------------------------------------------------------------------
(* C13 *)

\* C13: sanitize_vm_name is idempotent.  Given the name an earlier call
\* returned, it does not fail and returns that name unchanged.
C13_SanitizeIdempotent ==
    (InSanitize /\ call.again) =>
        /\ pc = "done"
        /\ result.raised = <<>>
        /\ result.value = call.name

\* "badname", the name returned for "bad;name", was sanitized again.
C13_Witness ==
    /\ InSanitize
    /\ call.again
    /\ call.name = <<"b", "a", "d", "n", "a", "m", "e">>
    /\ pc = "done"

----------------------------------------------------------------------------
(* C14 *)

InValidate == call.op = "validate_vm_id"

----------------------------------------------------------------------------
(* C15 *)

\* C15 as stated: a failing validate_vm_id and a failing sanitize_vm_name
\* raise a ValidationError, the validation error of the library.
C15_FailuresAreValidationError ==
    ((InValidate \/ InSanitize) /\ pc = "failed") =>
        /\ result.raised # <<>>
        /\ result.raised[1].kind = "ValidationError"

\* C15, amended: a failing validate_vm_id and a failing sanitize_vm_name
\* raise the builtin ValueError, with no cause attached; neither raises a
\* ValidationError.
C15_FailuresAreValueError ==
    ((InValidate \/ InSanitize) /\ pc = "failed") =>
        /\ result.raised # <<>>
        /\ result.raised[1].kind = "ValueError"
        /\ result.raised[1].cause = <<>>

\* validate_vm_id("100") has failed.
C15_Witness ==
    /\ InValidate
    /\ call.vm_id.ty = "str"
    /\ pc = "failed"
    /\ result.raised # <<>>

----------------------------------------------------------------------------
(* C16 *)

InRun == call.op = "run_command" /\ Len(cmds) = 1

\* The arguments of a command, each a single piece, with a space between
\* every two.
SpaceJoined(command) ==
    [i \in 1..(2 * Len(command) - 1) |->
        IF i % 2 = 1 THEN command[(i + 1) \div 2][1] ELSE " "]

\* C16: a process that exits with a non-zero code makes run_command with
\* check true raise a ProxmoxCommandError that carries the space-joined
\* command, the exit code and the captured stderr; a process that exits with
\* 0 makes it return; with check false an exit code never makes it raise, and
\* the result it returns carries that code.
C16_ExitCodeChecked ==
    (InRun /\ ~cmds[1].out.timed_out) =>
        /\ (call.check /\ cmds[1].out.returncode # 0) =>
               /\ pc = "failed"
               /\ result.raised # <<>>
               /\ result.raised[1].kind = "ProxmoxCommandError"
               /\ result.raised[1].command = SpaceJoined(call.command)
               /\ result.raised[1].returncode = cmds[1].out.returncode
               /\ result.raised[1].stderr = cmds[1].out.stderr
        /\ (cmds[1].out.returncode = 0 \/ ~call.check) =>
               /\ pc = "done"
               /\ result.raised = <<>>
               /\ result.returncode = cmds[1].out.returncode

\* run_command(["echo", "test"], check=True) has failed on exit code 1.
C16_Witness ==
    /\ InRun
    /\ call.check
    /\ call.command = <<<<"echo">>, <<"test">>>>
    /\ ~cmds[1].out.timed_out
    /\ cmds[1].out.returncode = 1
    /\ pc = "failed"

----------------------------------------------------------------------------
(* C17 *)

----------------------------------------------------------------------------
(* C18 *)

\* A create_vm call with valid, distinct ids and a name of valid characters.
ValidVmCall ==
    /\ InVmCall
    /\ ~InvalidId(call.template_id)
    /\ ~InvalidId(call.vm_id)
    /\ call.template_id # call.vm_id
    /\ call.vm_name # <<>>
    /\ ~HasInvalidChar(call.vm_name)

\* The commands of a complete create_vm call, in the stated order.
VmWorkflowKinds ==
    <<"clone", "set --ide2">>
        \o (IF call.configure_network THEN <<"set --ipconfig0">> ELSE <<>>)
        \o (IF call.start_vm THEN <<"start">> ELSE <<>>)

\* C18: create_vm with valid, distinct ids and a valid name issues `qm clone`,
\* then the `qm set` of boot disk, serial console and display with the
\* cloud-init drive on the configured data store, then
\* `qm set --ipconfig0 ip=dhcp` if and only if configure_network, then
\* `qm start` if and only if start_vm, each after the previous one succeeded.
\* With the defaults the network command is issued and the start command is
\* not.
C18_VmCommandOrder ==
    ValidVmCall =>
        /\ IsPrefix(Kinds(cmds), VmWorkflowKinds)
        /\ cmds = <<>> => pc = "v_clone"
        /\ \A i \in 1..(Len(cmds) - 1) : ~CommandFailed(cmds[i])
        /\ pc = "done" =>
               /\ Kinds(cmds) = VmWorkflowKinds
               /\ ~CommandFailed(cmds[Len(cmds)])
               /\ result.status = "ok"
               /\ (call.start_vm = FALSE /\ call.configure_network = TRUE) =>
                      Kinds(cmds) = <<"clone", "set --ide2", "set --ipconfig0">>
        /\ Len(cmds) >= 1 =>
               cmds[1].argv =
                   <<<<"qm">>, <<"clone">>, <<ToString(call.template_id.n)>>,
                     <<ToString(call.vm_id.n)>>, <<"--name">>, call.vm_name>>
        /\ Len(cmds) >= 2 =>
               cmds[2].argv =
                   <<<<"qm">>, <<"set">>, <<ToString(call.vm_id.n)>>,
                     <<"--ide2">>, config.data_store \o <<":cloudinit">>,
                     <<"--boot">>, <<"c">>, <<"--bootdisk">>, <<"scsi0">>,
                     <<"--serial0">>, <<"socket">>, <<"--vga">>, <<"serial0">>>>
        /\ \A i \in 1..Len(cmds) :
               /\ CommandKind(cmds[i].argv) = "set --ipconfig0" =>
                      cmds[i].argv =
                          <<<<"qm">>, <<"set">>, <<ToString(call.vm_id.n)>>,
                            <<"--ipconfig0">>, <<"ip=dhcp">>>>
               /\ CommandKind(cmds[i].argv) = "start" =>
                      cmds[i].argv =
                          <<<<"qm">>, <<"start">>, <<ToString(call.vm_id.n)>>>>

\* A create_vm call with the default start_vm and configure_network has
\* succeeded.
C18_Witness ==
    /\ ValidVmCall
    /\ pc = "done"
    /\ call.start_vm = DefaultStartVm
    /\ call.configure_network = DefaultConfigureNetwork
    /\ Len(cmds) = 3

----------------------------------------------------------------------------
(* C19 *)

----------------------------------------------------------------------------
(* C20 *)

InVmOperation ==
    call.op \in {"start_vm", "stop_vm", "delete_vm", "get_vm_status"}

\* C20: start_vm, stop_vm, delete_vm and get_vm_status each run exactly one
\* command per call; when it fails the call ends with the ProxmoxCommandError
\* of that command (its joined text, its exit code or -1 for a timeout, its
\* stderr), not with a VMCreationError or another wrapper; when it succeeds
\* the call returns.
C20_SingleCommandUnwrapped ==
    InVmOperation =>
        /\ Len(cmds) = 1
        /\ cmds[1].argv[1] = <<"qm">>
        /\ cmds[1].argv[3] = <<ToString(call.vm_id.n)>>
        /\ CommandFailed(cmds[1]) =>
               /\ pc = "failed"
               /\ result.raised # <<>>
               /\ result.raised[1].kind = "ProxmoxCommandError"
               /\ result.raised[1].command = SpaceJoined(cmds[1].argv)
               /\ result.raised[1].returncode =
                      (IF cmds[1].out.timed_out THEN -1
                       ELSE cmds[1].out.returncode)
               /\ ~cmds[1].out.timed_out =>
                      /\ result.raised[1].stderr = cmds[1].out.stderr
                      /\ result.raised[1].cause = <<>>
        /\ ~CommandFailed(cmds[1]) =>
               /\ pc = "done"
               /\ result.raised = <<>>

\* A stop_vm call has failed on exit code 1.
C20_Witness ==
    /\ call.op = "stop_vm"
    /\ pc = "failed"
    /\ Len(cmds) = 1
    /\ cmds[1].out.returncode = 1
    /\ result.raised[1].kind = "ProxmoxCommandError"

----------------------------------------------------------------------------
(* C21 *)

\* A text without the blanks at its start and at its end.
RECURSIVE TrimLeft(_)
TrimLeft(text) ==
    IF text # <<>> /\ Head(text) \in {" ", "\t", "\r", "\n"}
    THEN TrimLeft(Tail(text))
    ELSE text

RECURSIVE TrimRight(_)
TrimRight(text) ==
    IF text # <<>> /\ text[Len(text)] \in {" ", "\t", "\r", "\n"}
    THEN TrimRight(SubSeq(text, 1, Len(text) - 1))
    ELSE text

Trimmed(text) == TrimRight(TrimLeft(text))

\* The lines of a text: the pairs <<a, b>> such that text[a..b] has no
\* newline, starts the text or follows a newline, and ends the text or is
\* followed by a newline.  An empty line has b = a - 1.
LineSpans(text) ==
    {span \in (1..(Len(text) + 1)) \X (0..Len(text)) :
        /\ span[1] <= span[2] + 1
        /\ span[1] = 1 \/ text[span[1] - 1] = "\n"
        /\ span[2] = Len(text) \/ text[span[2] + 1] = "\n"
        /\ \A i \in span[1]..span[2] : text[i] # "\n"}

\* The lines with a colon, each with the place of its first colon.
ColonLines(text) ==
    {line \in LineSpans(text) \X (1..Len(text)) :
        /\ line[2] \in line[1][1]..line[1][2]
        /\ text[line[2]] = ":"
        /\ \A i \in line[1][1]..(line[2] - 1) : text[i] # ":"}

KeyOf(text, line) == Trimmed(SubSeq(text, line[1][1], line[2] - 1))
ValueOf(text, line) == Trimmed(SubSeq(text, line[2] + 1, line[1][2]))

StatusReturned == call.op = "get_vm_status" /\ pc = "done"

\* C21: the mapping get_vm_status returns has one key for each distinct text
\* that stands, trimmed, before the first colon of a line of the output; its
\* value is the trimmed text after the first colon of the last such line,
\* later colons included; lines without a colon give nothing.
\* "status: running\nname: test-vm\n" gives {status: running, name: test-vm}.
C21_StatusParsed ==
    StatusReturned =>
        LET text == cmds[1].out.stdout
            parsed == result.value[1]
        IN /\ DOMAIN parsed = {KeyOf(text, l) : l \in ColonLines(text)}
           /\ \A l \in ColonLines(text) :
                  (\A m \in ColonLines(text) :
                       KeyOf(text, m) = KeyOf(text, l) => m[2] <= l[2])
                      => parsed[KeyOf(text, l)] = ValueOf(text, l)
           /\ Len(text) = 30 =>
                  /\ DOMAIN parsed = {<<"s", "t", "a", "t", "u", "s">>,
                                      <<"n", "a", "m", "e">>}
                  /\ parsed[<<"s", "t", "a", "t", "u", "s">>] =
                         <<"r", "u", "n", "n", "i", "n", "g">>
                  /\ parsed[<<"n", "a", "m", "e">>] =
                         <<"t", "e", "s", "t", "-", "v", "m">>

\* An output with a line without a colon, an empty line and a line with two
\* colons was parsed to one key whose value keeps the second colon.
C21_Witness ==
    /\ StatusReturned
    /\ cmds[1].out.stdout = <<"u", "p", "\n", "\n", "s", ":", "a", ":", "b">>
    /\ DOMAIN result.value[1] = {<<"s">>}
    /\ result.value[1][<<"s">>] = <<"a", ":", "b">>

----------------------------------------------------------------------------
(* C22 *)

\* C22: delete_vm issues `qm destroy <id>`, followed by `--purge` if and only
\* if purge is true.  A call that leaves purge out issues the flag, a call
\* with purge=False does not.
C22_PurgeIffAsked ==
    call.op = "delete_vm" =>
        /\ Len(cmds) = 1
        /\ SubSeq(cmds[1].argv, 1, 3) =
               <<<<"qm">>, <<"destroy">>, <<ToString(call.vm_id.n)>>>>
        /\ call.given \in {<<>>, <<TRUE>>} =>
               cmds[1].argv =
                   <<<<"qm">>, <<"destroy">>, <<ToString(call.vm_id.n)>>,
                     <<"--purge">>>>
        /\ call.given = <<FALSE>> => Len(cmds[1].argv) = 3

\* delete_vm(100) without a purge argument has issued its command.
C22_Witness ==
    /\ call.op = "delete_vm"
    /\ call.given = <<>>
    /\ Len(cmds) = 1
    /\ cmds[1].argv[Len(cmds[1].argv)] = <<"--purge">>
    /\ pc = "done"

----------------------------------------------------------------------------
(* C23 *)

\* C23: stop_vm issues `qm stop <id>`, followed by `--skiplock` if and only
\* if force is true.  A call that leaves force out does not issue the flag.
C23_SkiplockIffForce ==
    call.op = "stop_vm" =>
        /\ Len(cmds) = 1
        /\ SubSeq(cmds[1].argv, 1, 3) =
               <<<<"qm">>, <<"stop">>, <<ToString(call.vm_id.n)>>>>
        /\ call.given = <<TRUE>> =>
               cmds[1].argv =
                   <<<<"qm">>, <<"stop">>, <<ToString(call.vm_id.n)>>,
                     <<"--skiplock">>>>
        /\ call.given \in {<<>>, <<FALSE>>} => Len(cmds[1].argv) = 3

\* stop_vm(100) without a force argument has issued its command.
C23_Witness ==
    /\ call.op = "stop_vm"
    /\ call.given = <<>>
    /\ Len(cmds) = 1
    /\ Len(cmds[1].argv) = 3
    /\ pc = "done"

----------------------------------------------------------------------------
(* C24 *)

\* The `qm template` command of the running call was issued and succeeded.
Converted ==
    /\ cmds # <<>>
    /\ CommandKind(cmds[Len(cmds)].argv) = "template"
    /\ ~CommandFailed(cmds[Len(cmds)])

\* C24: once the convert-to-template step has succeeded, create_template
\* returns success.  Without keep_image it attempts to delete the image
\* file, and returns success whether the deletion worked (the file is gone)
\* or failed (the file is still there); with keep_image it attempts no
\* deletion and the file stays.
C24_CleanupNeverFails ==
    (InTemplateCall /\ Converted) =>
        /\ pc \in {"t_cleanup", "done"}
        /\ pc = "done" =>
               /\ result.status = "ok"
               /\ result.raised = <<>>
               /\ call.keep_image =>
                      /\ result.unlink = "skipped"
                      /\ file[call.release] # "absent"
               /\ ~call.keep_image =>
                      /\ result.unlink \in {"ok", "failed"}
                      /\ result.unlink = "ok" =>
                             file[call.release] = "absent"
                      /\ result.unlink = "failed" =>
                             file[call.release] # "absent"

\* A call without keep_image has returned success although the image file
\* could not be deleted.
C24_Witness ==
    /\ InTemplateCall
    /\ Converted
    /\ pc = "done"
    /\ ~call.keep_image
    /\ result.status = "ok"
    /\ result.unlink = "failed"
    /\ file[call.release] # "absent"

----------------------------------------------------------------------------
(* C28 *)

InConstruct == call.op = "ProxmoxConfig"

\* A field that is not given, or whose given value satisfies a condition.
NotGivenOr(field, Cond(_)) ==
    call.given[field] = <<>> \/ Cond(call.given[field][1])

NonBlank(v) == Trimmed(v) # <<>>
RegularFile(v) == v.kind = "file"
MemoryInRange(v) == 512 <= v /\ v <= 65536
DiskIncreaseInRange(v) == 0 <= v /\ v <= 1000
TimeoutInRange(v) == 30 <= v /\ v <= 3600
RetriesInRange(v) == 1 <= v /\ v <= 10

\* Every field given for the construction is valid.
AllGivenValid ==
    /\ NotGivenOr("data_store", NonBlank)
    /\ NotGivenOr("vm_bridge", NonBlank)
    /\ NotGivenOr("ssh_key_path", RegularFile)
    /\ NotGivenOr("template_memory_mb", MemoryInRange)
    /\ NotGivenOr("template_disk_increase_gb", DiskIncreaseInRange)
    /\ NotGivenOr("download_timeout_seconds", TimeoutInRange)
    /\ NotGivenOr("max_retries", RetriesInRange)

\* C28: the construction of a ProxmoxConfig succeeds if and only if the data
\* store and the bridge are non-empty after trimming, the memory is in
\* [512, 65536], the disk increase in [0, 1000], the download timeout in
\* [30, 3600], max_retries in [1, 10] and the SSH key path, if given, names
\* an existing regular file.  With any field invalid it raises and returns
\* no object; the object it returns has every field valid; and the defaults
\* are 2048 MB, 30 GB, 300 s and 3 retries.
C28_ConfigValidOrNone ==
    InConstruct =>
        /\ (pc = "done") <=> AllGivenValid
        /\ pc = "failed" =>
               /\ result.raised # <<>>
               /\ result.value = <<>>
        /\ pc = "done" =>
               /\ result.raised = <<>>
               /\ Len(result.value) = 1
               /\ NonBlank(result.value[1].data_store)
               /\ NonBlank(result.value[1].vm_bridge)
               /\ MemoryInRange(result.value[1].template_memory_mb)
               /\ DiskIncreaseInRange(
                      result.value[1].template_disk_increase_gb)
               /\ TimeoutInRange(result.value[1].download_timeout_seconds)
               /\ RetriesInRange(result.value[1].max_retries)
               /\ call.given.ssh_key_path = <<>> =>
                      result.value[1].ssh_key_path = <<>>
               /\ \A field \in {"template_memory_mb",
                                "template_disk_increase_gb",
                                "download_timeout_seconds", "max_retries"} :
                      call.given[field] # <<>> =>
                          result.value[1][field] = call.given[field][1]
               /\ call.given.template_memory_mb = <<>> =>
                      result.value[1].template_memory_mb = 2048
               /\ call.given.template_disk_increase_gb = <<>> =>
                      result.value[1].template_disk_increase_gb = 30
               /\ call.given.download_timeout_seconds = <<>> =>
                      result.value[1].download_timeout_seconds = 300
               /\ call.given.max_retries = <<>> =>
                      result.value[1].max_retries = 3

\* A construction with max_retries = 11 as its only given field has failed.
C28_Witness ==
    /\ InConstruct
    /\ call.given.max_retries = <<11>>
    /\ \A field \in DOMAIN call.given :
           field # "max_retries" => call.given[field] = <<>>
    /\ pc = "failed"
    /\ result.value = <<>>

----------------------------------------------------------------------------
(* C29 *)

\* C29: only a network failure of a download attempt is retried.  An attempt
\* that fails with another error (the destination cannot be opened or
\* written) is the last attempt of its download: the error leaves
\* download_file as it is, the call fails with it as the cause, and every
\* attempt that was followed by another one failed with a NetworkError.
C29_OnlyNetworkRetried ==
    InTemplateCall =>
        \A i \in 1..Len(downloads.raised) :
            /\ i < Len(downloads.raised) =>
                   downloads.raised[i] = "NetworkError"
            /\ downloads.raised[i] = "OSError" =>
                   /\ i = downloads.attempts
                   /\ pc = "failed"
                   /\ result.raised # <<>>
                   /\ result.raised[1].cause # <<>>
                   /\ result.raised[1].cause[1].kind = "OSError"
                   /\ cmds = <<>>

\* A download whose first attempt could not write the destination was given
\* up after that attempt.
C29_Witness ==
    /\ InTemplateCall
    /\ downloads.raised = <<"OSError">>
    /\ downloads.attempts = 1
    /\ pc = "failed"
    /\ file[call.release] = "partial"

----------------------------------------------------------------------------
(* C30 *)

\* The last command of the running call is the `qm cloudinit dump` query.
DumpIsLast ==
    /\ cmds # <<>>
    /\ CommandKind(cmds[Len(cmds)].argv) = "cloudinit dump"

\* C30: a failure of `qm cloudinit dump` is never fatal: whether the query
\* exits with a non-zero code or times out, the call does not fail at it but
\* goes on to the convert-to-template step.
C30_DumpNeverFatal ==
    (InTemplateCall /\ DumpIsLast) =>
        /\ pc # "failed"
        /\ pc = "t_template"

----------------------------------------------------------------------------
(* C25 *)

\* The process of a command has ended.
ProcessExited == pc = "exited"

\* C25: every command exits with status 0 on success, with status 1 when
\* the operation failed with an error of the library (a ProxmoxUtilityError),
\* and with status 2 when any other exception occurred.
C25_ExitStatusByKind ==
    (ProcessExited /\ Command # "none") =>
        /\ result.raised = <<>> => result.code = 0
        /\ (result.raised # <<>>
              /\ result.raised[1].kind \in ProxmoxUtilityErrors) =>
               result.code = 1
        /\ (result.raised # <<>>
              /\ result.raised[1].kind \notin ProxmoxUtilityErrors
              /\ result.raised[1].kind # "click.Abort") =>
               result.code = 2

----------------------------------------------------------------------------
(* C26 *)

\* C26: delete without --yes asks for confirmation before anything else: at
\* the prompt no command was issued; the destroy command is issued only with
\* --yes or after the answer y; after any other answer no command at all was
\* issued; with --yes nothing is asked, and once the creator is built the
\* destroy command is the one command issued.
C26_DeleteAsksFirst ==
    Command = "delete" =>
        /\ pc = "cli_confirm" =>
               /\ ~call.line.yes
               /\ call.line.answer = <<>>
               /\ cmds = <<>>
        /\ call.line.yes => call.line.answer = <<>>
        /\ (~call.line.yes /\ pc # "cli_confirm") => call.line.answer # <<>>
        /\ cmds # <<>> =>
               /\ Kinds(cmds) = <<"destroy">>
               /\ call.line.yes \/ call.line.answer = <<"y">>
        /\ (~call.line.yes /\ call.line.answer # <<"y">>) => cmds = <<>>
        /\ call.op = "delete_vm" =>
               /\ Kinds(cmds) = <<"destroy">>
               /\ cmds[1].argv = DestroyArgv(call.line.vm_id,
                                             ~call.line.no_purge)

\* A delete without --yes, answered n, has exited with no command issued.
C26_Witness ==
    /\ Command = "delete"
    /\ ~call.line.yes
    /\ call.line.answer = <<"n">>
    /\ ProcessExited
    /\ result.code = 0
    /\ cmds = <<>>

----------------------------------------------------------------------------
(* C27 *)

\* Every process has called download_file: each found the image absent.
BothDownload == \A p \in Procs : downloads[p].called

\* C27: when two create_template calls for the same release both download
\* the image to the same path, the file each of them imports is the complete
\* image, and neither fails because the file is not there.
C27_ConcurrentImportsComplete ==
    BothDownload =>
        \A p \in Procs :
            /\ downloads[p].imported # <<>> =>
                   downloads[p].imported[1] = CompleteImage
            /\ pc[p] = "failed" =>
                   result[p].raised[1].cause[1].kind # "FileNotFoundError"

----------------------------------------------------------------------------
(* C31 *)

\* The positions in the log of the running call of the commands of a kind.
PositionsOf(kind) ==
    {i \in 1..Len(cmds) : CommandKind(cmds[i].argv) = kind}

\* C31: create_template issues the resize command if and only if the
\* effective disk increase is greater than 0, as `qm resize <id> scsi0 +nG`
\* right after the boot configuration; with an increase of 0 or less nothing
\* is issued for the step, the call does not fail at it and goes on with the
\* cloud-init commands.
C31_ResizeIffPositive ==
    InTemplateCall =>
        /\ \A i \in PositionsOf("resize") :
               /\ call.disk_increase_gb > 0
               /\ cmds[i].argv =
                      <<<<"qm">>, <<"resize">>,
                        <<ToString(call.template_id.n)>>, <<"scsi0">>,
                        <<"+", ToString(call.disk_increase_gb), "G">>>>
               /\ i > 1
               /\ CommandKind(cmds[i - 1].argv) = "set --ide2"
        /\ \A i \in PositionsOf("set --ipconfig0") :
               /\ call.disk_increase_gb > 0 =>
                      CommandKind(cmds[i - 1].argv) = "resize"
               /\ call.disk_increase_gb <= 0 =>
                      CommandKind(cmds[i - 1].argv) = "set --ide2"
        /\ (call.disk_increase_gb <= 0
              /\ cmds # <<>>
              /\ CommandKind(cmds[Len(cmds)].argv) = "set --ide2"
              /\ ~CommandFailed(cmds[Len(cmds)])) =>
               pc \in {"t_resize", "t_ipconfig"}

\* A call given the increase 0 has completed without a resize command.
C31_Witness ==
    /\ InTemplateCall
    /\ call.given.disk_increase_gb = <<0>>
    /\ pc = "done"
    /\ PositionsOf("resize") = {}
    /\ PositionsOf("template") # {}

----------------------------------------------------------------------------
(* C32 *)

\* C32: the cloud-init step issues `qm set <id> --sshkey <path>` if and only
\* if the configuration has an SSH key path, right after the
\* `--ipconfig0 ip=dhcp` command; without a key nothing is issued in its
\* place, the call does not fail there and goes on to the dump.
C32_SshKeyIffConfigured ==
    InTemplateCall =>
        /\ \A i \in PositionsOf("set --sshkey") :
               /\ config.ssh_key_path # <<>>
               /\ cmds[i].argv =
                      <<<<"qm">>, <<"set">>, <<ToString(call.template_id.n)>>,
                        <<"--sshkey">>, config.ssh_key_path[1]>>
               /\ i > 1
               /\ cmds[i - 1].argv =
                      <<<<"qm">>, <<"set">>, <<ToString(call.template_id.n)>>,
                        <<"--ipconfig0">>, <<"ip=dhcp">>>>
               /\ ~CommandFailed(cmds[i - 1])
        /\ \A i \in PositionsOf("cloudinit dump") :
               /\ config.ssh_key_path # <<>> =>
                      CommandKind(cmds[i - 1].argv) = "set --sshkey"
               /\ config.ssh_key_path = <<>> =>
                      CommandKind(cmds[i - 1].argv) = "set --ipconfig0"
        /\ (config.ssh_key_path = <<>>
              /\ cmds # <<>>
              /\ CommandKind(cmds[Len(cmds)].argv) = "set --ipconfig0"
              /\ ~CommandFailed(cmds[Len(cmds)])) =>
               pc \in {"t_sshkey", "t_dump"}

\* A call under a configuration without a key has completed, with no
\* --sshkey command.
C32_Witness ==
    /\ InTemplateCall
    /\ config.ssh_key_path = <<>>
    /\ pc = "done"
    /\ result.status = "ok"
    /\ PositionsOf("set --sshkey") = {}
    /\ PositionsOf("set --ipconfig0") # {}

----------------------------------------------------------------------------
(* C33 *)

\* "ubuntu-{release}-template"
UbuntuTemplateName ==
    <<"u", "b", "u", "n", "t", "u", "-">>
        \o (IF call.release = "noble" THEN <<"n", "o", "b", "l", "e">>
            ELSE <<"j", "a", "m", "m", "y">>)
        \o <<"-", "t", "e", "m", "p", "l", "a", "t", "e">>

----------------------------------------------------------------------------
(* C34 *)

\* C34: across the calls of create_template, the file at the image path is
\* a complete image whenever a call has passed it to importdisk (from the
\* download step to the cleanup nothing of the call writes the file): what a
\* failed download attempt left behind is never imported.
C34_ImportedImageComplete ==
    (InTemplateCall /\ PositionsOf("importdisk") # {} /\ pc # "done") =>
        file[call.release] = "complete"

----------------------------------------------------------------------------
(* C35 *)

\* C35: every name passed as the --name argument of a command, by create_vm
\* and by create_template alike, is made of characters of [A-Za-z0-9_-] only
\* and has between 1 and 64 characters.
C35_NamesAreSafe ==
    (InTemplateCall \/ InVmCall) =>
        \A i \in 1..Len(cmds) :
            \A k \in 1..(Len(cmds[i].argv) - 1) :
                cmds[i].argv[k] = <<"--name">> =>
                    /\ ~HasInvalidChar(cmds[i].argv[k + 1])
                    /\ Len(cmds[i].argv[k + 1]) >= 1
                    /\ Len(cmds[i].argv[k + 1]) <= 64

----------------------------------------------------------------------------
(* C36 *)

\* C36: no operation issues a command for an id that validate_vm_id with
\* the floor 100 rejects: a call of create_template, create_vm, start_vm,
\* stop_vm, delete_vm or get_vm_status that has issued a command has integer
\* ids in [100, 999999999].
C36_CommandsOnlyForValidIds ==
    cmds # <<>> =>
        /\ InVmOperation => ~InvalidId(call.vm_id)
        /\ InVmCall => ~InvalidId(call.vm_id) /\ ~InvalidId(call.template_id)
        /\ InTemplateCall => ~InvalidId(call.template_id)

----------------------------------------------------------------------------
(* C37 *)

\* Every process is in a create_template call with keep_image false.
NoneKeepsImage ==
    \A p \in Procs : call[p] # NoCall /\ ~call[p].keep_image

\* C37: when two create_template calls for the same release run concurrently
\* with keep_image false, the image file a call found or downloaded is still
\* there when that call issues its importdisk command.
C37_ImageThereAtImport ==
    NoneKeepsImage =>
        \A p \in Procs :
            \/ downloads[p].imported = <<>>
            \/ downloads[p].imported[1] # <<"missing">>

----------------------------------------------------------------------------
(* C38 *)

\* The steps of create_template from the create of the VM to the conversion.
CommandSteps ==
    {"t_create", "t_import", "t_scsi", "t_boot", "t_resize", "t_ipconfig",
     "t_sshkey", "t_dump", "t_template"}

\* C38: a create_template call that fails in a step from the create of the
\* VM to the conversion leaves the image file as it is, whatever keep_image
\* is: the failing step does not change the file, which is there; the file
\* stays as it is while the failed call returns and until the next call's
\* exists check; and an exists check that finds the file does not call
\* download_file and goes on to the create of the VM.
C38_FailureKeepsImage ==
    [][/\ (InTemplateCall /\ pc \in CommandSteps /\ pc' = "failed") =>
              (file' = file /\ Exists(call.release))
       /\ pc \in {"failed", "idle"} => file' = file
       /\ (pc = "t_download" /\ Exists(call.release)) =>
              /\ ~downloads'.called
              /\ file' = file
              /\ pc' = "t_create"]_vars

\* The conversion, the last command, has failed in a call with keep_image
\* false, and the image is still there.
C38_Witness ==
    /\ InTemplateCall
    /\ pc = "failed"
    /\ ~call.keep_image
    /\ PositionsOf("template") # {}
    /\ Exists(call.release)

\* The second call found the image it did not have to download, after a
\* first call that did not succeed in deleting it.
C38_WitnessReuse ==
    /\ InTemplateCall
    /\ calls = 2
    /\ downloads.found # <<>>
    /\ downloads.found[1] # "absent"
    /\ ~downloads.called
    /\ pc = "t_create"

----------------------------------------------------------------------------
(* C39 *)

\* The call has returned or raised.
Terminated == pc \in {"done", "failed"}

\* No two commands of the call's log are of the same kind: no step that
\* issues a command has run twice.
EachStepOnce ==
    \A i, j \in 1..Len(cmds) :
        i # j => CommandKind(cmds[i].argv) # CommandKind(cmds[j].argv)

\* C39: every create_template and create_vm call terminates, returning or
\* raising its workflow error, given that every command returns or reaches
\* its timeout and every download attempt returns or fails; a call makes at
\* most three download attempts, runs each step at most once, and runs
\* nothing more once it has failed.
C39_CallsTerminate ==
    /\ (InTemplateCall \/ InVmCall) ~> Terminated
    /\ [](downloads.attempts <= StopAfterAttempt)
    /\ [](EachStepOnce)
    /\ [](pc = "failed" =>
             /\ result.status = "error"
             /\ result.raised[1].kind = IF InTemplateCall
                                        THEN "TemplateCreationError"
                                        ELSE "VMCreationError")
    /\ [][pc = "failed" => (pc' = "idle" /\ hv' = hv /\ file' = file)]_vars

\* A create_template call that used all its download attempts and raised.
C39_Witness ==
    /\ InTemplateCall
    /\ pc = "failed"
    /\ downloads.attempts = StopAfterAttempt
    /\ result.raised[1].kind = "TemplateCreationError"

====
